---- MODULE Spec2Model ----
(***************************************************************************)
(* Animation scheduling engine (AnimationManager) and node object factory  *)
(* (NodeObjectFactory) of 3d-force-graph.                                  *)
(*                                                                         *)
(* Numbers.  JavaScript numbers that can become NaN or undefined are kept  *)
(* boxed: <<n>> is the number n, <<>> is NaN / undefined.  Times are       *)
(* integers in units of one transitionDuration default (0.2 s).  A         *)
(* transition progress p in [0,1] is kept as the integer p * Unit, and so  *)
(* are scale and rotation values.                                          *)
(***************************************************************************)
EXTENDS Integers, Sequences, FiniteSets, TLC

VARIABLES animationTypes,      \* AnimationManager._animationTypes
          animatedObjects,     \* AnimationManager._animatedObjects
          objectAnimations,    \* module-level WeakMap object -> instance list
          animationIdCounter,  \* module-level id counter
          objects,             \* the target objects' scale and rotation
          now,                 \* performance.now() / 1000
          ghost,               \* per instance id: history used by the properties
          last,                \* the last call: what it did and returned
          typeRegistry,        \* NodeObjectFactory._typeRegistry
          objectPools,         \* NodeObjectFactory._objectPools
          activeObjects,       \* NodeObjectFactory._activeObjects
          geometryCache,       \* NodeObjectFactory._geometryCache
          materialCache,       \* NodeObjectFactory._materialCache
          meshes,              \* the meshes the creators have made, by reference
          resourceCounter,     \* geometries and materials made so far
          disposed,            \* geometries and materials dispose() was called on
          handedOut,           \* meshes createObject returned, not released since
          createCalls,         \* per cache and key: create function calls since
                               \* the cache was last emptied
          graphData,           \* the graph's data: { nodes, links }
          nodeIdAccessor,      \* the graph's nodeId accessor (state.nodeId)
          onApiError,          \* the graph's onApiError callback
          requests,            \* the API loader's calls whose fetch is pending
          hoverObj,            \* the graph's state.hoverObj
          nodeHoverAnimation,  \* the graph's nodeHoverAnimation prop
          hoverStarted,        \* ids the hover handler's startAnimation returned
          animationFrameRequestId, \* state.animationFrameRequestId, 0 for null
          frameRequests,       \* ids of the animation frames that are requested
          frameCounter,        \* the id requestAnimationFrame returned last
          paused               \* pauseAnimation has returned, resumeAnimation
                               \* has not been called since

managerState == <<animationTypes, animatedObjects, objectAnimations,
                  animationIdCounter, objects, now, ghost>>

animVars == <<animationTypes, animatedObjects, objectAnimations,
              animationIdCounter, objects, now, ghost, last>>

factoryVars == <<typeRegistry, objectPools, activeObjects, geometryCache,
                 materialCache, meshes, resourceCounter, disposed, handedOut,
                 createCalls>>

hoverVars == <<hoverObj, nodeHoverAnimation, hoverStarted>>

loopVars == <<animationFrameRequestId, frameRequests, frameCounter, paused>>

graphVars == <<graphData, nodeIdAccessor, onApiError, requests, hoverVars,
               loopVars>>

vars == <<animVars, factoryVars, graphVars>>

----------------------------------------------------------------------------
(* Bounds *)

MaxTime == 3        \* the clock stops advancing here
MaxId == 2          \* at most this many instances are ever created
MaxMeshes == 3      \* at most this many meshes are ever made
MaxResources == 3   \* at most this many geometries and materials are ever made
MaxCreateCalls == 2 \* a create function is called at most this often per key
MaxFrames == 4      \* at most this many animation frames are ever requested

----------------------------------------------------------------------------
(* Boxed numbers *)

NaN == <<>>
Num(n) == <<n>>
IsNum(x) == Len(x) = 1
Val(x) == x[1]

Min(a, b) == IF a < b THEN a ELSE b

\* transition durations that occur: the built-in default and the values
\* the call options and type defaults below use
TransitionDurations == {0, 1, 2}

RECURSIVE Product(_)
Product(S) ==
  IF S = {} THEN 1
  ELSE LET x == CHOOSE y \in S : TRUE
       IN (IF x = 0 THEN 1 ELSE x) * Product(S \ {x})

\* fixed-point denominator of progress, scale and rotation values
Unit == Product(TransitionDurations)

\* Math.min(1, base + num / den) for boxed base and den, num >= 0:
\* x/undefined and 0/0 are NaN, x/0 is Infinity, Math.min(1, NaN) is NaN
Min1Plus(base, num, den) ==
  IF ~IsNum(base) \/ ~IsNum(den) THEN NaN
  ELSE IF Val(den) = 0
       THEN (IF num = 0 THEN NaN ELSE Num(Unit))
       ELSE Num(Min(Unit, Val(base) + (num * Unit) \div Val(den)))

----------------------------------------------------------------------------
(* Options: records whose domain is the set of keys present *)

NoOptions == <<>>
Has(o, k) == k \in DOMAIN o

\* { ...a, ...b }: b wins
Spread(a, b) == b @@ a

\* boxed read of a numeric option
NumOpt(o, k) == IF Has(o, k) THEN Num(o[k]) ELSE NaN

\* easing table names (animations/easing.js)
EasingNames == {"linear", "easeInQuad", "easeOutQuad", "easeInOutQuad",
                "easeOutCubic", "easeInCubic", "easeInOutCubic",
                "easeOutElastic", "easeOutBounce"}

\* property names every object literal inherits from Object.prototype
InheritedNames ==
  {"constructor", "toString", "toLocaleString", "valueOf", "hasOwnProperty",
   "isPrototypeOf", "propertyIsEnumerable", "__proto__"}

\* the table's function under a name
EasingFunction(name) == [type |-> "function", of |-> "easing", name |-> name]

\* what the table inherits under a name: functions, and its prototype
Inherited(name) ==
  [type |-> IF name = "__proto__" THEN "object" ELSE "function",
   of |-> "Object.prototype", name |-> name]

\* easing[name]: the table's own function, an inherited property or
\* undefined
EasingProperty(name) ==
  IF name \in EasingNames THEN EasingFunction(name)
  ELSE IF name \in InheritedNames THEN Inherited(name)
       ELSE [type |-> "undefined"]

\* getEasing(easingOrName), for a function or a name (a string, kept as
\* [type |-> "string", value |-> name])
getEasing(easingOrName) ==
  IF easingOrName.type = "function" THEN easingOrName
  ELSE LET found == EasingProperty(easingOrName.value)
       IN IF found.type # "undefined" THEN found ELSE EasingFunction("linear")

\* the defaults startAnimation merges under the type defaults
BuiltInDefaults ==
  [loop |-> TRUE, duration |-> 5,
   easing |-> [type |-> "string", value |-> "linear"],
   transitionDuration |-> 1]

\* options passed by callers
CallOptions ==
  { NoOptions,
    [loop |-> FALSE, duration |-> 1],
    [loop |-> FALSE, duration |-> 1, transitionDuration |-> 2],
    [transitionDuration |-> 0] }

----------------------------------------------------------------------------
(* Animation type descriptors *)

Objects == {"o1", "o2"}
NullObject == "null"

\* nodeHoverAnimation: null by default; null and '' are both falsy
NoHoverAnimation == ""
Names == {"pulse", "spin", "test"}

\* the pulse module's descriptor.  The phase is counted in quarter turns, so
\* that the sine is exact: the type is registered with a speed of one quarter
\* turn per time unit and an amplitude of 1.0
PulseModule ==
  [kind |-> "pulse", update |-> TRUE,
   defaultOptions |-> [speed |-> 1, amplitude |-> Unit, baseScale |-> "null",
                       axis |-> "all"],
   init |-> TRUE, cleanup |-> TRUE]

\* the spin module's descriptor; rotations are counted in units of
\* speed * 2 pi * one time unit
SpinModule ==
  [kind |-> "spin", update |-> TRUE,
   defaultOptions |-> [speed |-> 1, axis |-> "y", direction |-> 1],
   init |-> TRUE, cleanup |-> TRUE]

\* a caller-defined type in the shape of the tests' testAnimation: its
\* update leaves the object alone (the counters it keeps in its state are
\* left out) and, as any caller's update, can throw
TestAnimation ==
  [kind |-> "test", update |-> TRUE,
   defaultOptions |-> [testOption |-> "default"],
   init |-> TRUE, cleanup |-> TRUE]

\* the same type redefined with other default options and without the
\* optional functions and, for invalid registrations, a descriptor without
\* an update function
TestRedefined ==
  [kind |-> "test", update |-> TRUE, defaultOptions |-> [testOption |-> "other"]]

NoUpdateConfig == [kind |-> "none", defaultOptions |-> NoOptions]

\* the glow module's descriptor: the phase is counted in quarter turns as
\* for pulse, intensities are fixed-point numbers, the color option is a
\* boxed hex number, NaN standing for null
GlowModule ==
  [kind |-> "glow", update |-> TRUE,
   defaultOptions |-> [speed |-> 1, minIntensity |-> 0, maxIntensity |-> Unit,
                       color |-> NaN, pulse |-> TRUE],
   init |-> TRUE, cleanup |-> TRUE]

\* a caller-defined type that probes the manager: its update moves the
\* object along y by deltaTime, its cleanup counts its calls in the
\* object's userData and sets the scale to zero
ProbeAnimation ==
  [kind |-> "probe", update |-> TRUE, defaultOptions |-> NoOptions,
   init |-> TRUE, cleanup |-> TRUE]

\* a caller-defined type whose init function throws
ThrowingInit ==
  [kind |-> "broken", update |-> TRUE, defaultOptions |-> NoOptions,
   init |-> TRUE, cleanup |-> TRUE]

\* the descriptors a name is registered with
Configs(name) ==
  CASE name = "pulse" -> {PulseModule}
    [] name = "spin"  -> {SpinModule}
    [] OTHER          -> {TestAnimation}

----------------------------------------------------------------------------
(* Target objects and instances *)

\* hex values of colors
Black == 0
White == 1
Red == 2

\* object.material of an object without material
NoMaterial == <<>>

\* a material with emissive color and intensity (MeshStandardMaterial) and
\* one without (MeshBasicMaterial); opacity is a fixed-point number
StandardMaterial(emissive, emissiveIntensity) ==
  [emissive |-> emissive, emissiveIntensity |-> Num(emissiveIntensity),
   opacity |-> Unit, color |-> Red]

BasicMaterial == [opacity |-> Unit, color |-> Red]

\* an object's scale (uniform, as the mock's setScalar keeps it), its
\* rotation about y and its position along y, boxed fixed-point numbers,
\* its material and the counter the probe type keeps in its userData
InitialObject ==
  [scale |-> Num(Unit), rotation |-> Num(0), position |-> Num(0),
   material |-> NoMaterial, userData |-> 0]

\* the instances of an object's list, <<>> when the WeakMap has no entry
ListOf(object) ==
  IF object \in DOMAIN objectAnimations THEN objectAnimations[object] ELSE <<>>

\* the map with object's entry set to list
SetList(map, object, list) == (object :> list) @@ map

\* the map without object's entry
DeleteKey(map, object) == [o \in DOMAIN map \ {object} |-> map[o]]

\* the sequence without its i-th element: animations.splice(i, 1)
Splice(seq, i) == SubSeq(seq, 1, i - 1) \o SubSeq(seq, i + 1, Len(seq))

Ids(list) == {list[i].id : i \in 1..Len(list)}

AllInstances ==
  UNION {{objectAnimations[o][i] : i \in 1..Len(objectAnimations[o])} :
         o \in DOMAIN objectAnimations}

\* isAnimating(object, animationName)
isAnimating(object, animationName) ==
  /\ object # NullObject
  /\ \E i \in 1..Len(ListOf(object)) :
       /\ ListOf(object)[i].name = animationName
       /\ ~ListOf(object)[i].stopping

\* FindExisting with the test of the stopping flag inverted
FindExistingStopping(animations, animationName) ==
  LET hits == {i \in 1..Len(animations) :
                 animations[i].name = animationName /\ animations[i].stopping}
  IN IF hits = {} THEN 0 ELSE CHOOSE i \in hits : \A j \in hits : i <= j

\* animations.find(a => a.name === animationName && !a.stopping): the index
\* of the first match, 0 when there is none
FindExisting(animations, animationName) ==
  LET hits == {i \in 1..Len(animations) :
                 animations[i].name = animationName /\ ~animations[i].stopping}
  IN IF hits = {} THEN 0 ELSE CHOOSE i \in hits : \A j \in hits : i <= j

\* UpdateExisting that also restarts the transition in
UpdateExistingRestart(existing, animType, options) ==
  [existing EXCEPT !.options = Spread(animType.defaultOptions, options),
                   !.transitionProgress = Num(0)]

\* the existing instance after a repeated start
UpdateExisting(existing, animType, options) ==
  [existing EXCEPT !.options = Spread(animType.defaultOptions, options)]

\* the options of a new instance, easing function resolved
MergedOptions(animType, options) ==
  LET merged == Spread(Spread(BuiltInDefaults, animType.defaultOptions), options)
  IN Spread(merged, [easingFn |-> getEasing(merged.easing)])

\* glow.init's state: the material's emissive color and intensity before
\* init changes the color (emissiveIntensity || 0)
GlowInitState(obj) ==
  [phase |-> 0,
   hasMaterial |-> obj.material # NoMaterial,
   originalEmissive |->
     IF obj.material # NoMaterial /\ Has(obj.material, "emissive")
     THEN Num(obj.material.emissive) ELSE NaN,
   originalIntensity |->
     IF obj.material # NoMaterial /\ Has(obj.material, "emissiveIntensity")
        /\ IsNum(obj.material.emissiveIntensity)
     THEN obj.material.emissiveIntensity ELSE Num(0)]

\* the object after glow.init: the emissive color is set to a truthy color
\* option, and to white when there is none and the color is black
GlowInitObject(obj, options) ==
  IF obj.material = NoMaterial \/ ~Has(obj.material, "emissive") THEN obj
  ELSE IF IsNum(options.color) /\ Val(options.color) # 0
  THEN [obj EXCEPT !.material.emissive = Val(options.color)]
  ELSE IF obj.material.emissive = Black
  THEN [obj EXCEPT !.material.emissive = White]
  ELSE obj

\* the object after the type's init function
InitObject(animType, obj, options) ==
  IF animType.init /\ animType.kind = "glow"
  THEN GlowInitObject(obj, options) ELSE obj

\* the type's init function
InitState(animType, obj, options) ==
  IF ~animType.init THEN <<>>
  ELSE CASE animType.kind = "glow" -> GlowInitState(obj)
         [] animType.kind = "pulse" ->
              [phase |-> 0,
               baseScale |-> IF options.baseScale # "null"
                             THEN options.baseScale ELSE obj.scale]
         [] animType.kind = "spin"  ->
              [totalRotation |-> Num(0), initialRotation |-> obj.rotation]
         [] OTHER -> [initialized |-> TRUE]

\* the restoration snapshot: clones of scale, rotation and position and,
\* with a material, of its emissive color, emissive intensity, opacity and
\* color (undefined where the material has none)
InitialValues(obj) ==
  [scale |-> obj.scale, rotation |-> obj.rotation, position |-> obj.position,
   material |-> obj.material]

\* NewInstance with the first id for every instance
NewInstanceFirstId(id, animationName, animType, obj, options) ==
  LET mergedOptions == MergedOptions(animType, options)
  IN [id |-> 1,
      name |-> animationName,
      state |-> InitState(animType, obj, mergedOptions),
      options |-> mergedOptions,
      startTime |-> now,
      stopping |-> FALSE,
      stopStartTime |-> 0,
      initialValues |-> InitialValues(InitObject(animType, obj, mergedOptions)),
      transitionProgress |-> Num(0)]

NewInstance(id, animationName, animType, obj, options) ==
  LET mergedOptions == MergedOptions(animType, options)
  IN [id |-> id,
      name |-> animationName,
      state |-> InitState(animType, obj, mergedOptions),
      options |-> mergedOptions,
      startTime |-> now,
      stopping |-> FALSE,
      stopStartTime |-> 0,
      initialValues |-> InitialValues(InitObject(animType, obj, mergedOptions)),
      transitionProgress |-> Num(0)]

NoCall == [op |-> "none"]

\* no create function has been called for any key of either cache
NoCreateCalls == [geometry |-> <<>>, material |-> <<>>]

Init ==
  /\ animationTypes = <<>>
  /\ animatedObjects = {}
  /\ objectAnimations = <<>>
  /\ animationIdCounter = 0
  /\ objects = [o \in Objects |-> InitialObject]
  /\ now = 0
  /\ ghost = <<>>
  /\ last = NoCall
  /\ typeRegistry = <<>>
  /\ objectPools = <<>>
  /\ activeObjects = <<>>
  /\ geometryCache = <<>>
  /\ materialCache = <<>>
  /\ meshes = <<>>
  /\ resourceCounter = 0
  /\ disposed = {}
  /\ handedOut = {}
  /\ createCalls = NoCreateCalls
  /\ graphData = [nodes |-> <<>>, links |-> <<>>]
  /\ nodeIdAccessor = "id"
  /\ onApiError = "default"
  /\ requests = <<>>
  /\ hoverObj = NullObject
  /\ nodeHoverAnimation = NoHoverAnimation
  /\ hoverStarted = {}
  /\ animationFrameRequestId = 1
  /\ frameRequests = {1}
  /\ frameCounter = 1
  /\ paused = FALSE

----------------------------------------------------------------------------
(* registerAnimation, unregisterAnimation *)

\* names handed to registerAnimation are JavaScript values: strings, or
\* something else
NotAString == [type |-> "number", value |-> 7]

\* InvalidName that lets the empty string pass
InvalidNameType(name) == name.type # "string"

\* typeof name !== 'string' || !name
InvalidName(name) == name.type # "string" \/ name.value = ""

\* typeof config.update !== 'function'
LacksUpdate(config) == ~Has(config, "update")

\* the descriptor registerAnimation stores
NormalConfig(config) ==
  [kind |-> config.kind,
   update |-> config.update,
   defaultOptions |-> IF Has(config, "defaultOptions")
                      THEN config.defaultOptions ELSE NoOptions,
   init |-> Has(config, "init") /\ config.init,
   cleanup |-> Has(config, "cleanup") /\ config.cleanup]

registerAnimation(name, config) ==
  /\ IF InvalidName(name) \/ LacksUpdate(config)
     THEN /\ animationTypes' = animationTypes
          /\ last' = [op |-> "registerAnimation", threw |-> TRUE]
     ELSE /\ animationTypes' =
               SetList(animationTypes, name.value, NormalConfig(config))
          /\ last' = [op |-> "registerAnimation", threw |-> FALSE]
  /\ UNCHANGED <<factoryVars, graphVars>>
  /\ UNCHANGED <<animatedObjects, objectAnimations, animationIdCounter,
                 objects, now, ghost>>

\* the host gives an object that is not animated a material
setMaterial(object, material) ==
  /\ object \notin DOMAIN objectAnimations
  /\ objects[object].material # material
  /\ objects' = [objects EXCEPT ![object].material = material]
  /\ last' = [op |-> "setMaterial"]
  /\ UNCHANGED <<factoryVars, graphVars>>
  /\ UNCHANGED <<animationTypes, animatedObjects, objectAnimations,
                 animationIdCounter, now, ghost>>

\* new AnimationManager(): the manager in use is replaced by a new one with
\* an empty registry and an empty tracked set; the WeakMap and the id
\* counter belong to the module and are shared by all managers
newManager ==
  /\ animationTypes' = <<>>
  /\ animatedObjects' = {}
  /\ ghost' = [id \in DOMAIN ghost |-> [ghost[id] EXCEPT !.foreign = TRUE]]
  /\ last' = [op |-> "newManager"]
  /\ UNCHANGED <<factoryVars, graphVars>>
  /\ UNCHANGED <<objectAnimations, animationIdCounter, objects, now>>

unregisterAnimation(name) ==
  /\ animationTypes' = DeleteKey(animationTypes, name)
  /\ last' = [op |-> "unregisterAnimation",
              ret |-> (name \in DOMAIN animationTypes)]
  /\ UNCHANGED <<factoryVars, graphVars>>
  /\ UNCHANGED <<animatedObjects, objectAnimations, animationIdCounter,
                 objects, now, ghost>>

----------------------------------------------------------------------------
(* startAnimation *)

\* StartFailure with another value for the failure
StartFailureZero == [ret |-> 0, created |-> FALSE]

\* what startAnimation returns on its failure paths
StartFailure == [ret |-> -1, created |-> FALSE]

\* what startAnimation returns, and whether it creates an instance
StartReturn(object, animationName) ==
  IF object = NullObject \/ animationName \notin DOMAIN animationTypes
  THEN StartFailure
  ELSE LET existing == FindExisting(ListOf(object), animationName)
       IN IF existing # 0
          THEN [ret |-> ListOf(object)[existing].id, created |-> FALSE]
          ELSE [ret |-> animationIdCounter + 1, created |-> TRUE]

\* startAnimation leaves by an exception: no running instance of the type
\* exists on the object and the type's init function throws
StartThrows(object, animationName) ==
  /\ object # NullObject
  /\ animationName \in DOMAIN animationTypes
  /\ FindExisting(ListOf(object), animationName) = 0
  /\ animationTypes[animationName].init
  /\ animationTypes[animationName].kind = "broken"

\* the body of startAnimation
StartBody(object, animationName, options) ==
  IF object = NullObject \/ animationName \notin DOMAIN animationTypes
  THEN UNCHANGED <<managerState, graphVars>>
  ELSE
    LET animType == animationTypes[animationName]
        animations == ListOf(object)
        existing == FindExisting(animations, animationName)
    IN IF existing # 0
       THEN /\ objectAnimations' = SetList(objectAnimations, object,
                 [animations EXCEPT
                    ![existing] = UpdateExisting(@, animType, options)])
            /\ ghost' = [ghost EXCEPT ![animations[existing].id].touched = TRUE]
            /\ UNCHANGED <<animationTypes, animatedObjects,
                           animationIdCounter, objects, now>>
       ELSE IF StartThrows(object, animationName)
       THEN /\ objectAnimations' = SetList(objectAnimations, object, animations)
            /\ UNCHANGED <<animationTypes, animatedObjects,
                           animationIdCounter, objects, now, ghost>>
       ELSE /\ animationIdCounter < MaxId
            /\ animationIdCounter' = animationIdCounter + 1
            /\ objectAnimations' = SetList(objectAnimations, object,
                 Append(animations,
                        NewInstance(animationIdCounter + 1, animationName,
                                    animType, objects[object], options)))
            /\ animatedObjects' = animatedObjects \cup {object}
            /\ objects' = [objects EXCEPT ![object] =
                 InitObject(animType, @, MergedOptions(animType, options))]
            /\ ghost' = SetList(ghost, animationIdCounter + 1,
                 [pre |-> objects[object],
                  origin |-> IF Len(animations) > 0
                             THEN ghost[animations[1].id].origin
                             ELSE objects[object],
                  stopAt |-> NaN, stopTd |-> NaN,
                  byCall |-> FALSE, touched |-> FALSE, foreign |-> FALSE])
            /\ UNCHANGED <<animationTypes, now>>

startAnimation(object, animationName, options) ==
  /\ StartBody(object, animationName, options)
  /\ last' = IF StartThrows(object, animationName)
             THEN [op |-> "startAnimation", threw |-> TRUE]
             ELSE [op |-> "startAnimation",
                   ret |-> StartReturn(object, animationName).ret,
                   created |-> StartReturn(object, animationName).created]
  /\ UNCHANGED <<factoryVars, graphVars>>

----------------------------------------------------------------------------
(* _cleanupAnimation, stopAnimation *)

\* CleanupAnimation that forgets the rotation
CleanupScaleOnly(obj, anim) ==
  [obj EXCEPT !.scale = anim.initialValues.scale]

\* the object after glow.cleanup: the emissive color and intensity of
\* the instance's state are written back
GlowCleanup(obj, state) ==
  IF ~state.hasMaterial \/ obj.material = NoMaterial THEN obj
  ELSE LET mat == obj.material
           colored == IF IsNum(state.originalEmissive) /\ Has(mat, "emissive")
                      THEN [mat EXCEPT !.emissive = Val(state.originalEmissive)]
                      ELSE mat
       IN [obj EXCEPT !.material =
             IF Has(mat, "emissiveIntensity")
             THEN [colored EXCEPT !.emissiveIntensity = state.originalIntensity]
             ELSE colored]

\* the object after the probe type's cleanup
ProbeCleanup(obj) == [obj EXCEPT !.scale = Num(0), !.userData = @ + 1]

\* the object after animType.cleanup(object, anim.state, anim.options) of
\* the type now registered under the instance's name, if it has one: the
\* cleanup functions of pulse, spin and the tests leave the object alone
TypeCleanup(obj, anim) ==
  IF anim.name \notin DOMAIN animationTypes THEN obj
  ELSE LET animType == animationTypes[anim.name]
       IN IF ~animType.cleanup THEN obj
          ELSE IF animType.kind = "glow" /\ Has(anim.state, "hasMaterial")
          THEN GlowCleanup(obj, anim.state)
          ELSE IF animType.kind = "probe" THEN ProbeCleanup(obj)
          ELSE obj

\* the material after the snapshot's material values are written back
RestoreMaterial(mat, initial) ==
  LET m1 == IF Has(initial, "emissive") /\ Has(mat, "emissive")
            THEN [mat EXCEPT !.emissive = initial.emissive] ELSE mat
      m2 == IF Has(initial, "emissiveIntensity")
            THEN Spread(m1, [emissiveIntensity |-> initial.emissiveIntensity])
            ELSE m1
      m3 == IF Has(initial, "opacity")
            THEN Spread(m2, [opacity |-> initial.opacity]) ELSE m2
  IN IF Has(initial, "color") /\ Has(m3, "color")
     THEN [m3 EXCEPT !.color = initial.color] ELSE m3

\* the object after the snapshot is written back: scale and rotation, not
\* the position, and the material's values when the object had a material
\* at the start and has one now
Restore(obj, initial) ==
  LET restored == [obj EXCEPT !.scale = initial.scale,
                              !.rotation = initial.rotation]
  IN IF initial.material # NoMaterial /\ obj.material # NoMaterial
     THEN [restored EXCEPT
             !.material = RestoreMaterial(obj.material, initial.material)]
     ELSE restored

\* the object after _cleanupAnimation(object, anim): the type's cleanup,
\* then the restoration
CleanupAnimation(obj, anim) ==
  Restore(TypeCleanup(obj, anim), anim.initialValues)

\* selectors of stopAnimation: a name, an id, or omitted
Selectors ==
  {[by |-> "name", name |-> n] : n \in Names} \cup
  {[by |-> "id", id |-> i] : i \in 1..MaxId} \cup
  {[by |-> "all"]}

\* ShouldStop that takes every instance for a match
ShouldStopAny(anim, sel) == TRUE

\* shouldStop: the selector is omitted, or is the name or the id
ShouldStop(anim, sel) ==
  \/ sel.by = "all"
  \/ sel.by = "name" /\ anim.name = sel.name
  \/ sel.by = "id" /\ anim.id = sel.id

\* the loop of stopAnimation from index i down to 1: the list, the object
\* and the ids it acted on
RECURSIVE StopLoop(_, _, _, _, _, _)
StopLoop(animations, i, obj, sel, immediate, hit) ==
  IF i = 0 THEN [list |-> animations, obj |-> obj, hit |-> hit]
  ELSE
    LET anim == animations[i]
    IN IF ShouldStop(anim, sel) /\ ~anim.stopping
       THEN IF immediate
            THEN StopLoop(Splice(animations, i), i - 1,
                          CleanupAnimation(obj, anim), sel, immediate,
                          hit \cup {anim.id})
            ELSE StopLoop([animations EXCEPT ![i].stopping = TRUE,
                                             ![i].stopStartTime = now],
                          i - 1, obj, sel, immediate, hit \cup {anim.id})
       ELSE StopLoop(animations, i - 1, obj, sel, immediate, hit)

\* the ghost restricted to the instances that are still registered
Live(g, map) ==
  LET ids == UNION {Ids(map[o]) : o \in DOMAIN map}
  IN [id \in DOMAIN g \cap ids |-> g[id]]

\* the ghost with the first entry into stopping recorded for ids
MarkStopped(g, ids, list) ==
  [id \in DOMAIN g |->
     IF id \in ids /\ ~IsNum(g[id].stopAt)
     THEN LET anim == CHOOSE a \in {list[i] : i \in 1..Len(list)} : a.id = id
          IN [g[id] EXCEPT !.stopAt = Num(now),
                !.stopTd = NumOpt(anim.options, "transitionDuration"),
                !.byCall = TRUE, !.touched = TRUE]
     ELSE g[id]]

\* the effect of stopAnimation(object, sel, immediate) on the manager:
\* <<objectAnimations, animatedObjects, object, hit>>
StopEffect(map, tracked, object, obj, sel, immediate) ==
  IF object = NullObject \/ object \notin DOMAIN map \/ Len(map[object]) = 0
  THEN [map |-> map, tracked |-> tracked, obj |-> obj, hit |-> {}]
  ELSE LET r == StopLoop(map[object], Len(map[object]), obj, sel, immediate, {})
       IN IF Len(r.list) = 0
          THEN [map |-> DeleteKey(map, object), tracked |-> tracked \ {object},
                obj |-> r.obj, hit |-> r.hit]
          ELSE [map |-> SetList(map, object, r.list), tracked |-> tracked,
                obj |-> r.obj, hit |-> r.hit]

\* the ids stopAnimation acts on
StopHits(object, sel, immediate) ==
  StopEffect(objectAnimations, animatedObjects, object, InitialObject, sel,
             immediate).hit

\* the body of stopAnimation
StopBody(object, sel, immediate) ==
  LET obj == IF object = NullObject THEN InitialObject ELSE objects[object]
      r == StopEffect(objectAnimations, animatedObjects, object, obj, sel,
                      immediate)
  IN /\ objectAnimations' = r.map
     /\ animatedObjects' = r.tracked
     /\ objects' = IF object = NullObject THEN objects
                   ELSE [objects EXCEPT ![object] = r.obj]
     /\ ghost' = IF immediate THEN Live(ghost, r.map)
                 ELSE MarkStopped(ghost, r.hit, ListOf(object))
     /\ UNCHANGED <<animationTypes, animationIdCounter, now>>

stopAnimation(object, sel, immediate) ==
  /\ StopBody(object, sel, immediate)
  /\ last' = [op |-> "stopAnimation", immediate |-> immediate,
              hit |-> StopHits(object, sel, immediate)]
  /\ UNCHANGED <<factoryVars, graphVars>>

----------------------------------------------------------------------------
(* The update functions *)

\* sin at whole quarter turns
SinQ(phase) == CASE phase % 4 = 1 -> 1 [] phase % 4 = 3 -> -1 [] OTHER -> 0

\* a * b / 1.0 for boxed fixed-point b
Times(a, b) == IF IsNum(b) THEN Num((a * Val(b)) \div Unit) ELSE NaN
Plus(a, b) == IF IsNum(a) /\ IsNum(b) THEN Num(Val(a) + Val(b)) ELSE NaN

\* pulse.update: advance the phase, scale = baseScale + sin(phase) * amplitude
\* * transitionProgress on all axes
PulseUpdate(obj, state, deltaTime, options, transitionProgress) ==
  LET phase == (state.phase + deltaTime * options.speed) % 4
      amplitude == Times(options.amplitude, transitionProgress)
      scaleOffset == Times(SinQ(phase) * Unit, amplitude)
  IN [state |-> [state EXCEPT !.phase = phase],
      obj |-> [obj EXCEPT !.scale = Plus(state.baseScale, scaleOffset)]]

\* spin.update: totalRotation += deltaTime * speed * direction *
\* transitionProgress, rotation.y = initial.y + totalRotation (axis 'y')
SpinUpdate(obj, state, deltaTime, options, transitionProgress) ==
  LET delta == Times(deltaTime * options.speed * options.direction * Unit,
                     transitionProgress)
      totalRotation == Plus(state.totalRotation, delta)
  IN [state |-> [state EXCEPT !.totalRotation = totalRotation],
      obj |-> [obj EXCEPT !.rotation = Plus(state.initialRotation, totalRotation)]]

\* glow.update: the emissive intensity follows (sin(phase) + 1) / 2 between
\* minIntensity and maxIntensity, or stays at maxIntensity, times the
\* transition progress
GlowUpdate(obj, state, deltaTime, options, transitionProgress) ==
  IF ~state.hasMaterial \/ obj.material = NoMaterial
  THEN [state |-> state, obj |-> obj]
  ELSE
    LET phase == (state.phase + deltaTime * options.speed) % 4
        range == options.maxIntensity - options.minIntensity
        sineValue == ((SinQ(phase) + 1) * Unit) \div 2
        intensity == IF options.pulse
                     THEN options.minIntensity + (sineValue * range) \div Unit
                     ELSE options.maxIntensity
    IN [state |-> [state EXCEPT !.phase = phase],
        obj |-> IF Has(obj.material, "emissiveIntensity")
                THEN [obj EXCEPT !.material.emissiveIntensity =
                                    Times(intensity, transitionProgress)]
                ELSE obj]

\* the probe type's update
ProbeUpdate(obj, state, deltaTime) ==
  [state |-> state,
   obj |-> [obj EXCEPT !.position = Plus(@, Num(deltaTime))]]

\* animType.update(object, state, deltaTime, options, transitionProgress)
Update(animType, obj, state, deltaTime, options, transitionProgress) ==
  CASE animType.kind = "glow" /\ Has(state, "hasMaterial") ->
         GlowUpdate(obj, state, deltaTime, options, transitionProgress)
    [] animType.kind = "probe" -> ProbeUpdate(obj, state, deltaTime)
    [] animType.kind = "pulse" ->
         PulseUpdate(obj, state, deltaTime, options, transitionProgress)
    [] animType.kind = "spin" ->
         SpinUpdate(obj, state, deltaTime, options, transitionProgress)
    [] OTHER -> [state |-> state, obj |-> obj]

----------------------------------------------------------------------------
(* tick *)

\* !anim.options.loop
NotLoop(options) == ~Has(options, "loop") \/ ~options.loop

\* anim.transitionProgress < 1 (false for NaN)
BelowOne(p) == IsNum(p) /\ Val(p) < Unit

\* 1 - stopProgress
OneMinus(p) == IF IsNum(p) THEN Num(Unit - Val(p)) ELSE NaN

\* elapsed >= anim.options.duration (false for an undefined duration)
DurationOver(anim, t) ==
  Has(anim.options, "duration") /\ t - anim.startTime >= anim.options.duration

\* Math.min(1, stopElapsed / transitionDuration)
StopProgress(anim, t) ==
  Min1Plus(Num(0), t - anim.stopStartTime,
           NumOpt(anim.options, "transitionDuration"))

\* stopProgress >= 1 (false for NaN)
StopDone(anim, t) ==
  IsNum(StopProgress(anim, t)) /\ Val(StopProgress(anim, t)) >= Unit

\* TransitionIn that starts from zero at every frame
TransitionInReset(anim, deltaTime) ==
  IF BelowOne(anim.transitionProgress) /\ ~anim.stopping
  THEN [anim EXCEPT !.transitionProgress =
          Min1Plus(Num(0), deltaTime, NumOpt(anim.options, "transitionDuration"))]
  ELSE anim

\* the instance after the transition-in step
TransitionIn(anim, deltaTime) ==
  IF BelowOne(anim.transitionProgress) /\ ~anim.stopping
  THEN [anim EXCEPT !.transitionProgress =
          Min1Plus(@, deltaTime, NumOpt(anim.options, "transitionDuration"))]
  ELSE anim

\* TransitionOut that takes the instance out of the stopping state
TransitionOutRevives(anim, t) ==
  IF anim.stopping THEN [anim EXCEPT !.stopping = FALSE] ELSE anim

\* the instance after the transition-out step, when it is not finished
TransitionOut(anim, t) ==
  IF anim.stopping
  THEN [anim EXCEPT !.transitionProgress = OneMinus(StopProgress(anim, t))]
  ELSE anim

\* the instance after the duration check of non-looping animations
DurationCheck(anim, t) ==
  IF NotLoop(anim.options) /\ DurationOver(anim, t)
  THEN [anim EXCEPT !.stopping = TRUE, !.stopStartTime = t]
  ELSE anim

\* DropUnregistered that restores the snapshot
DropRestores(obj, anim) ==
  [obj EXCEPT !.scale = anim.initialValues.scale,
              !.rotation = anim.initialValues.rotation]

\* the object after tick has found no descriptor for the instance's name:
\* the instance is spliced out and nothing else is done
DropUnregistered(obj, anim) == obj

\* RemoveFaulted that drops the head of the list instead
RemoveFirst(animations, i) == Splice(animations, 1)

\* what the catch block of tick does to the list when the update of the
\* instance at index i has thrown
RemoveFaulted(animations, i) == Splice(animations, i)

NoLog == [updated |-> {}, faulted |-> {}, cleaned |-> {}, dropped |-> {},
          entered |-> {}, passed |-> <<>>, invoked |-> <<>>, stopped |-> {},
          threw |-> FALSE]

\* no update function calls stopAnimation
NoStops == <<>>

\* one pass of tick over an object's list, from index i down to 1, at clock
\* time t; faults are the ids whose update throws; stops gives, for the ids
\* whose update calls stopAnimation(object, selector, true) on the object
\* it is run for, the selector.  The list is the array the loop indexes: an
\* index beyond its end reads undefined, and tick throws on anim.name
RECURSIVE TickLoop(_, _, _, _, _, _, _, _)
TickLoop(animations, i, obj, t, deltaTime, faults, stops, log) ==
  IF i = 0 THEN [list |-> animations, obj |-> obj, log |-> log]
  ELSE IF i > Len(animations)
  THEN [list |-> animations, obj |-> obj, log |-> [log EXCEPT !.threw = TRUE]]
  ELSE
    LET anim == animations[i]
    IN IF anim.name \notin DOMAIN animationTypes
       THEN TickLoop(Splice(animations, i), i - 1,
                     DropUnregistered(obj, anim), t, deltaTime, faults, stops,
                     [log EXCEPT !.dropped = @ \cup {anim.id}])
       ELSE
         LET animType == animationTypes[anim.name]
             a1 == TransitionIn(anim, deltaTime)
         IN IF a1.stopping /\ StopDone(a1, t)
            THEN TickLoop(Splice(animations, i), i - 1,
                          CleanupAnimation(obj, a1), t, deltaTime, faults,
                          stops, [log EXCEPT !.cleaned = @ \cup {anim.id}])
            ELSE
              LET a2 == TransitionOut(a1, t)
                  a3 == DurationCheck(a2, t)
                  log3 == IF a3.stopping /\ ~anim.stopping
                          THEN [log EXCEPT !.entered = @ \cup {anim.id},
                                           !.invoked = Append(@, anim.id)]
                          ELSE [log EXCEPT !.invoked = Append(@, anim.id)]
              IN IF anim.id \in faults
                 THEN TickLoop(RemoveFaulted([animations EXCEPT ![i] = a3], i),
                               i - 1, obj, t, deltaTime, faults, stops,
                               [log3 EXCEPT !.faulted = @ \cup {anim.id}])
                 ELSE
                   LET u == Update(animType, obj, a3.state, deltaTime,
                                   a3.options, a3.transitionProgress)
                       written == [animations EXCEPT
                                     ![i] = [a3 EXCEPT !.state = u.state]]
                       log4 == [log3 EXCEPT
                                  !.updated = @ \cup {anim.id},
                                  !.passed = (anim.id :> a3.transitionProgress) @@ @]
                   IN IF anim.id \notin DOMAIN stops
                      THEN TickLoop(written, i - 1, u.obj, t, deltaTime,
                                    faults, stops, log4)
                      ELSE
                        LET s == StopLoop(written, Len(written), u.obj,
                                          stops[anim.id], TRUE, {})
                        IN TickLoop(s.list, i - 1, s.obj, t, deltaTime,
                                    faults, stops,
                                    [log4 EXCEPT !.stopped = @ \cup s.hit])

\* the instances whose update function can throw
Throwers ==
  {a.id : a \in {b \in AllInstances :
                   /\ b.name \in DOMAIN animationTypes
                   /\ animationTypes[b.name].kind = "test"}}

\* the loop of tick over the tracked objects that have a list (their lists
\* are independent, so the order does not matter unless tick throws, which
\* ends it): the lists, the objects and the log
RECURSIVE TickObjects(_, _, _, _, _, _)
TickObjects(todo, t, deltaTime, faults, stops, acc) ==
  IF todo = {} \/ acc.log.threw THEN acc
  ELSE LET object == CHOOSE o \in todo : TRUE
           r == TickLoop(objectAnimations[object],
                         Len(objectAnimations[object]), objects[object], t,
                         deltaTime, faults, stops, acc.log)
       IN TickObjects(todo \ {object}, t, deltaTime, faults, stops,
                      [lists |-> (object :> r.list) @@ acc.lists,
                       objs |-> [acc.objs EXCEPT ![object] = r.obj],
                       log |-> r.log])

\* the body of tick(deltaTime) with update functions that throw (faults) or
\* call stopAnimation (stops); op names the call the tick is part of
TickBody(deltaTime, faults, stops, op) ==
  \E t \in {now + deltaTime} :
  \E r \in {TickObjects(animatedObjects \cap DOMAIN objectAnimations, t,
                         deltaTime, faults, stops,
                         [lists |-> <<>>, objs |-> objects, log |-> NoLog])} :
  \E emptied \in {{o \in DOMAIN r.lists : Len(r.lists[o]) = 0}} :
  \E log \in {r.log} :
  \E gone \in {log.faulted \cup log.cleaned \cup log.dropped
                 \cup log.stopped} :
     /\ t <= MaxTime
     /\ now' = t
     /\ objectAnimations' =
          [o \in DOMAIN objectAnimations \ emptied |->
             IF o \in DOMAIN r.lists THEN r.lists[o] ELSE objectAnimations[o]]
     /\ animatedObjects' = animatedObjects \ emptied
     /\ objects' = r.objs
     /\ ghost' = [id \in DOMAIN ghost \ gone |->
                    IF id \in log.entered /\ ~IsNum(ghost[id].stopAt)
                    THEN LET anim == CHOOSE a \in AllInstances : a.id = id
                         IN [ghost[id] EXCEPT !.stopAt = Num(t),
                               !.stopTd = NumOpt(anim.options, "transitionDuration")]
                    ELSE ghost[id]]
     /\ last' = [op |-> op, updated |-> log.updated,
                 faulted |-> log.faulted, cleaned |-> log.cleaned,
                 dropped |-> log.dropped, passed |-> log.passed,
                 invoked |-> log.invoked, threw |-> log.threw]
     /\ UNCHANGED <<animationTypes, animationIdCounter>>

\* tick(deltaTime) with update functions that throw (faults) or call
\* stopAnimation (stops)
tickCalling(deltaTime, faults, stops) ==
  /\ TickBody(deltaTime, faults, stops, "tick")
  /\ UNCHANGED <<factoryVars, graphVars>>

\* tick(deltaTime) with update functions that call nothing of the manager
tick(deltaTime, faults) == tickCalling(deltaTime, faults, NoStops)

----------------------------------------------------------------------------
(* toggleAnimation, clear *)

\* toggleAnimation(object, animationName, options, immediate)
toggleAnimation(object, animationName, options, immediate) ==
  /\ UNCHANGED <<factoryVars, graphVars>>
  /\ IF object = NullObject
     THEN /\ last' = [op |-> "toggleAnimation", ret |-> FALSE]
          /\ UNCHANGED <<managerState, graphVars>>
     ELSE IF isAnimating(object, animationName)
          THEN /\ StopBody(object, [by |-> "name", name |-> animationName],
                           immediate)
               /\ last' = [op |-> "toggleAnimation", ret |-> FALSE]
          ELSE /\ StartBody(object, animationName, options)
               /\ last' = IF StartThrows(object, animationName)
                          THEN [op |-> "toggleAnimation", threw |-> TRUE]
                          ELSE [op |-> "toggleAnimation", ret |-> TRUE]

\* the instances of a set, in a sequence
RECURSIVE InstanceList(_)
InstanceList(S) ==
  IF S = {} THEN <<>>
  ELSE LET x == CHOOSE y \in S : TRUE
       IN <<x>> \o InstanceList(S \ {x})

\* clear(immediate): stopAllAnimations on every tracked object, one after
\* the other (the objects' lists are independent), then the set is emptied
RECURSIVE ClearLoop(_, _, _, _, _)
ClearLoop(todo, map, objs, immediate, hit) ==
  IF todo = {} THEN [map |-> map, objs |-> objs, hit |-> hit]
  ELSE LET object == CHOOSE o \in todo : TRUE
           r == StopEffect(map, {}, object, objs[object], [by |-> "all"],
                           immediate)
       IN ClearLoop(todo \ {object}, r.map,
                    [objs EXCEPT ![object] = r.obj], immediate,
                    hit \cup r.hit)

clear(immediate) ==
  LET r == ClearLoop(animatedObjects, objectAnimations, objects, immediate, {})
  IN /\ objectAnimations' = r.map
     /\ objects' = r.objs
     /\ animatedObjects' = {}
     /\ ghost' = IF immediate THEN Live(ghost, r.map)
                 ELSE MarkStopped(ghost, r.hit, InstanceList(AllInstances))
     /\ last' = [op |-> "clear"]
     /\ UNCHANGED <<animationTypes, animationIdCounter, now>>
     /\ UNCHANGED <<factoryVars, graphVars>>

----------------------------------------------------------------------------
(* NodeObjectFactory *)

TypeNames == {"cube", "cylinder"}
NoType == ""
NodeIds == {1, 2}

\* nodes with default attributes; NoType stands for a missing type attribute
Nodes ==
  {[id |-> i, nodeThreeObjectType |-> t] : i \in NodeIds, t \in TypeNames \cup {NoType}}

\* the default type attribute of createObject and createAccessor
DefaultAttribute == "nodeThreeObjectType"

\* node[typeAttribute], NoType when the node has no such attribute
NodeType(node, typeAttribute) ==
  IF typeAttribute \in DOMAIN node THEN node[typeAttribute] ELSE NoType

\* the render library handed to createObject: the real one, or one whose
\* constructors throw
RenderLibs == {"THREE", "broken"}

\* a create function handed to getGeometry / getMaterial returns a new
\* resource or throws
CreateFns == {"returns", "throws"}

\* a creator in the shape of the tests' errorType: it throws when called
FaultyCreator == "faulty"

\* JavaScript values that can be handed to Map.has: strings and references
Str(s) == [type |-> "string", value |-> s]
Ref(n) == [type |-> "object", ref |-> n]

\* Map.prototype.has: is the value one of the map's keys (the caches are
\* keyed by strings)
MapHas(map, v) == v.type = "string" /\ v.value \in DOMAIN map

\* the values of a map
MapValues(map) == {map[k] : k \in DOMAIN map}

\* the cache keys the creators build for a node: `cube_${size}` with
\* size = node.cubeSize || Math.cbrt(node.val || 1) * 4, the cylinder's key
\* of a node without val and overrides, and `lambert_${color}_${opacity}`
\* with color = node.color || '#ffffaa' and the default opacity.  The nodes
\* used here have no cubeSize or the cubeSize 8, no color or the color
\* #ff0000, and no val and no opacity
GeometryKey(creatorFn, node) ==
  IF creatorFn = "cube"
  THEN IF Has(node, "cubeSize") /\ node.cubeSize = 8
       THEN "cube_8" ELSE "cube_4"
  ELSE "cylinder_2_2_4_8"

MaterialKey(node) ==
  IF Has(node, "color") /\ node.color = "#ff0000"
  THEN "lambert_#ff0000_0.75" ELSE "lambert_#ffffaa_0.75"

\* a cache lookup that calls the create function whether or not the key is
\* cached
GetUncached(cache, key, counter, createFn) ==
  IF createFn = "throws"
  THEN [cache |-> cache, res |-> 0, counter |-> counter, invoked |-> TRUE,
        threw |-> TRUE]
  ELSE [cache |-> SetList(cache, key, counter + 1), res |-> counter + 1,
        counter |-> counter + 1, invoked |-> TRUE, threw |-> FALSE]

\* getGeometry(key, createFn): the cache, the geometry (0 when createFn
\* threw), the resource count, whether createFn was called and whether it
\* threw
getGeometry(cache, key, counter, createFn) ==
  IF key \in DOMAIN cache
  THEN [cache |-> cache, res |-> cache[key], counter |-> counter,
        invoked |-> FALSE, threw |-> FALSE]
  ELSE IF createFn = "throws"
       THEN [cache |-> cache, res |-> 0, counter |-> counter,
             invoked |-> TRUE, threw |-> TRUE]
       ELSE [cache |-> SetList(cache, key, counter + 1), res |-> counter + 1,
             counter |-> counter + 1, invoked |-> TRUE, threw |-> FALSE]

\* getMaterial(key, createFn)
getMaterial(cache, key, counter, createFn) ==
  IF key \in DOMAIN cache
  THEN [cache |-> cache, res |-> cache[key], counter |-> counter,
        invoked |-> FALSE, threw |-> FALSE]
  ELSE IF createFn = "throws"
       THEN [cache |-> cache, res |-> 0, counter |-> counter,
             invoked |-> TRUE, threw |-> TRUE]
       ELSE [cache |-> SetList(cache, key, counter + 1), res |-> counter + 1,
             counter |-> counter + 1, invoked |-> TRUE, threw |-> FALSE]

\* the create function calls recorded for a key: how many returned, how
\* many threw
CallsOf(calls, key) ==
  IF key \in DOMAIN calls THEN calls[key] ELSE [returned |-> 0, threw |-> 0]

\* the record of calls after a lookup r of the key
CountCall(calls, key, r) ==
  IF ~r.invoked THEN calls
  ELSE IF r.threw
       THEN SetList(calls, key, [CallsOf(calls, key) EXCEPT !.threw = @ + 1])
       ELSE SetList(calls, key, [CallsOf(calls, key) EXCEPT !.returned = @ + 1])

\* no key of the record has more calls than the bound
CallsBounded(calls) ==
  \A k \in DOMAIN calls : calls[k].returned + calls[k].threw <= MaxCreateCalls

\* the creators of cube.js and cylinder.js, called with the factory, and the
\* faulty creator: the caches, the resource count and the calls after the
\* call, whether it threw, and the mesh it returned if it did not.  The mesh
\* carries the dimensions of its geometry and the colour and opacity of its
\* material in the form the keys give them.  With a
\* render library whose constructors throw, the create functions and the
\* construction of the mesh throw
Create(creatorFn, node, THREE, geometries, materials, counter, calls) ==
  LET createFn == IF THREE = "broken" THEN "throws" ELSE "returns"
      geometryKey == GeometryKey(creatorFn, node)
      materialKey == MaterialKey(node)
      g == getGeometry(geometries, geometryKey, counter, createFn)
      m == getMaterial(materials, materialKey, g.counter, createFn)
      gCalls == [calls EXCEPT
                   !.geometry = CountCall(@, geometryKey, g)]
      mCalls == [gCalls EXCEPT
                   !.material = CountCall(@, materialKey, m)]
  IN IF creatorFn = FaultyCreator
     THEN [threw |-> TRUE, geometryCache |-> geometries,
           materialCache |-> materials, counter |-> counter, calls |-> calls]
     ELSE IF g.threw
     THEN [threw |-> TRUE, geometryCache |-> geometries,
           materialCache |-> materials, counter |-> counter, calls |-> gCalls]
     ELSE IF m.threw \/ THREE = "broken"
     THEN [threw |-> TRUE, geometryCache |-> g.cache,
           materialCache |-> m.cache, counter |-> m.counter, calls |-> mCalls]
     ELSE [threw |-> FALSE, geometryCache |-> g.cache,
           materialCache |-> m.cache, counter |-> m.counter, calls |-> mCalls,
           mesh |-> [visible |-> TRUE, geometry |-> g.res,
                     material |-> m.res, geometryKey |-> geometryKey,
                     materialKey |-> materialKey]]

\* the pool of a type, <<>> when there is none
PoolOf(typeName) ==
  IF typeName \in DOMAIN objectPools THEN objectPools[typeName] ELSE <<>>

\* PoolPop that takes the oldest pooled object
PoolShift(pool) == [obj |-> pool[1], rest |-> SubSeq(pool, 2, Len(pool))]

\* PoolPop that leaves the object in the pool
PoolPeek(pool) == [obj |-> pool[Len(pool)], rest |-> pool]

\* pool.pop()
PoolPop(pool) ==
  [obj |-> pool[Len(pool)], rest |-> SubSeq(pool, 1, Len(pool) - 1)]

\* the resources _disposeObject(obj) calls dispose on
DisposeObject(obj) ==
  (IF ~MapHas(geometryCache, Ref(obj.geometry)) THEN {obj.geometry} ELSE {})
    \cup
  (IF ~MapHas(materialCache, Ref(obj.material)) THEN {obj.material} ELSE {})

\* pool.forEach(obj => this._disposeObject(obj))
DisposePool(pool) ==
  UNION {DisposeObject(meshes[pool[i]]) : i \in 1..Len(pool)}

registerType(typeName, creatorFn) ==
  /\ typeRegistry' = SetList(typeRegistry, typeName, creatorFn)
  /\ objectPools' = IF typeName \in DOMAIN objectPools THEN objectPools
                    ELSE SetList(objectPools, typeName, <<>>)
  /\ last' = [op |-> "registerType"]
  /\ UNCHANGED <<activeObjects, geometryCache, materialCache, meshes,
                 resourceCounter, disposed, handedOut, createCalls>>
  /\ UNCHANGED <<managerState, graphVars>>

unregisterType(typeName) ==
  /\ disposed' = disposed \cup DisposePool(PoolOf(typeName))
  /\ objectPools' = DeleteKey(objectPools, typeName)
  /\ typeRegistry' = DeleteKey(typeRegistry, typeName)
  /\ last' = [op |-> "unregisterType", ret |-> (typeName \in DOMAIN typeRegistry)]
  /\ UNCHANGED <<activeObjects, geometryCache, materialCache, meshes,
                 resourceCounter, handedOut, createCalls>>
  /\ UNCHANGED <<managerState, graphVars>>

\* ActiveAfterThrow that records the node all the same, without an object
ActiveAfterThrowTracked(table, nodeId, typeName) ==
  SetList(table, nodeId, [object |-> 0, typeName |-> typeName])

\* the Active Object Table after the creator has thrown: the entry is set
\* after the creator's call, so the catch block is reached with the table as
\* it was
ActiveAfterThrow(table, nodeId, typeName) == table

\* what createObject returns: the reference of the object (0 for null),
\* whether the creator made it, whether the creator threw
CreateObjectReturn(node, THREE, typeAttribute) ==
  LET typeName == NodeType(node, typeAttribute)
  IN IF typeName = NoType \/ typeName \notin DOMAIN typeRegistry
     THEN [ret |-> 0, created |-> FALSE, threw |-> FALSE]
     ELSE IF Len(PoolOf(typeName)) > 0
          THEN [ret |-> PoolPop(PoolOf(typeName)).obj, created |-> FALSE,
                threw |-> FALSE]
          ELSE IF Create(typeRegistry[typeName], node, THREE, geometryCache,
                         materialCache, resourceCounter, createCalls).threw
               THEN [ret |-> 0, created |-> FALSE, threw |-> TRUE]
               ELSE [ret |-> Len(meshes) + 1, created |-> TRUE,
                     threw |-> FALSE]

\* the body of createObject
CreateObjectBody(node, THREE, typeAttribute) ==
  LET typeName == NodeType(node, typeAttribute)
  IN IF typeName = NoType \/ typeName \notin DOMAIN typeRegistry
     THEN UNCHANGED <<factoryVars, graphVars>>
     ELSE IF Len(PoolOf(typeName)) > 0
          THEN LET r == PoolPop(PoolOf(typeName))
               IN /\ objectPools' = [objectPools EXCEPT ![typeName] = r.rest]
                  /\ meshes' = [meshes EXCEPT ![r.obj].visible = TRUE]
                  /\ activeObjects' = SetList(activeObjects, node.id,
                       [object |-> r.obj, typeName |-> typeName])
                  /\ handedOut' = handedOut \cup {r.obj}
                  /\ UNCHANGED <<typeRegistry, geometryCache, materialCache,
                                 resourceCounter, disposed, createCalls>>
          ELSE LET c == Create(typeRegistry[typeName], node, THREE,
                               geometryCache, materialCache, resourceCounter,
                               createCalls)
                   obj == Len(meshes) + 1
               IN /\ c.counter <= MaxResources
                  /\ CallsBounded(c.calls.geometry)
                  /\ CallsBounded(c.calls.material)
                  /\ geometryCache' = c.geometryCache
                  /\ materialCache' = c.materialCache
                  /\ resourceCounter' = c.counter
                  /\ createCalls' = c.calls
                  /\ IF c.threw
                     THEN /\ activeObjects' =
                               ActiveAfterThrow(activeObjects, node.id, typeName)
                          /\ UNCHANGED <<typeRegistry, objectPools, meshes,
                                         disposed, handedOut>>
                     ELSE /\ Len(meshes) < MaxMeshes
                          /\ meshes' = Append(meshes, c.mesh)
                          /\ activeObjects' = SetList(activeObjects, node.id,
                               [object |-> obj, typeName |-> typeName])
                          /\ handedOut' = handedOut \cup {obj}
                          /\ UNCHANGED <<typeRegistry, objectPools, disposed>>

\* createObject(node, THREE, typeAttribute)
createObject(node, THREE, typeAttribute) ==
  /\ CreateObjectBody(node, THREE, typeAttribute)
  /\ last' = [op |-> "createObject",
              ret |-> CreateObjectReturn(node, THREE, typeAttribute).ret,
              created |-> CreateObjectReturn(node, THREE, typeAttribute).created,
              threw |-> CreateObjectReturn(node, THREE, typeAttribute).threw]
  /\ UNCHANGED <<managerState, graphVars>>

releaseObject(nodeId) ==
  /\ UNCHANGED <<managerState, graphVars>>
  /\ IF nodeId \in DOMAIN activeObjects
     THEN LET entry == activeObjects[nodeId]
          IN /\ meshes' = [meshes EXCEPT ![entry.object].visible = FALSE]
             /\ objectPools' =
                  IF entry.typeName \in DOMAIN objectPools
                  THEN [objectPools EXCEPT
                          ![entry.typeName] = Append(@, entry.object)]
                  ELSE objectPools
             /\ activeObjects' = DeleteKey(activeObjects, nodeId)
             /\ handedOut' = handedOut \ {entry.object}
             /\ last' = [op |-> "releaseObject", object |-> entry.object,
                         typeName |-> entry.typeName]
             /\ UNCHANGED <<typeRegistry, geometryCache, materialCache,
                            resourceCounter, disposed, createCalls>>
     ELSE /\ last' = [op |-> "releaseObject", object |-> 0, typeName |-> NoType]
          /\ UNCHANGED <<factoryVars, graphVars>>

\* the resources clearPools calls dispose on
ClearPoolsDisposed ==
  UNION {DisposePool(objectPools[t]) : t \in DOMAIN objectPools}

clearPools ==
  /\ disposed' = disposed \cup ClearPoolsDisposed
  /\ objectPools' = [t \in DOMAIN objectPools |-> <<>>]
  /\ last' = [op |-> "clearPools"]
  /\ UNCHANGED <<typeRegistry, activeObjects, geometryCache, materialCache,
                 meshes, resourceCounter, handedOut, createCalls>>
  /\ UNCHANGED <<managerState, graphVars>>

\* NodeObjectFactory.clear(): after it no object is tracked any more
clearFactory ==
  /\ disposed' = disposed \cup ClearPoolsDisposed
  /\ typeRegistry' = <<>>
  /\ objectPools' = <<>>
  /\ activeObjects' = <<>>
  /\ handedOut' = {}
  /\ last' = [op |-> "clear"]
  /\ UNCHANGED <<geometryCache, materialCache, meshes, resourceCounter,
                 createCalls>>
  /\ UNCHANGED <<managerState, graphVars>>

disposeCache ==
  /\ disposed' = disposed \cup MapValues(geometryCache) \cup MapValues(materialCache)
  /\ geometryCache' = <<>>
  /\ materialCache' = <<>>
  /\ createCalls' = NoCreateCalls
  /\ last' = [op |-> "disposeCache"]
  /\ UNCHANGED <<typeRegistry, objectPools, activeObjects, meshes,
                 resourceCounter, handedOut>>
  /\ UNCHANGED <<managerState, graphVars>>

\* dispose(): clear(), then disposeCache()
dispose ==
  /\ disposed' = disposed \cup ClearPoolsDisposed
                   \cup MapValues(geometryCache) \cup MapValues(materialCache)
  /\ typeRegistry' = <<>>
  /\ objectPools' = <<>>
  /\ activeObjects' = <<>>
  /\ handedOut' = {}
  /\ geometryCache' = <<>>
  /\ materialCache' = <<>>
  /\ createCalls' = NoCreateCalls
  /\ last' = [op |-> "dispose"]
  /\ UNCHANGED <<meshes, resourceCounter>>
  /\ UNCHANGED <<managerState, graphVars>>

\* JavaScript values an accessor can return or be given as its fallback
Null == [type |-> "null"]
FallbackFunction == [type |-> "function"]
FallbackObject == [type |-> "object", static |-> "fallbackObj"]
False == [type |-> "boolean", value |-> FALSE]

\* what the fallback function returns for a node
FallbackResult(node) == [type |-> "object", madeFor |-> node.id]

\* the fallbacks handed to createAccessor: none, a function, a static
\* object, a static falsy value
Fallbacks == {Null, FallbackFunction, FallbackObject, False}

\* the truthiness test of a JavaScript value
Truthy(v) == v.type \in {"function", "object"} \/ (v.type = "boolean" /\ v.value)

\* AccessorReturn that hands back the fallback without calling it
AccessorReturnStatic(factoryObject, fallbackAccessor, node) ==
  IF factoryObject # 0 THEN Ref(factoryObject)
  ELSE IF Truthy(fallbackAccessor) THEN fallbackAccessor
       ELSE Null

\* what the accessor returns for a node, given what createObject returned
AccessorReturn(factoryObject, fallbackAccessor, node) ==
  IF factoryObject # 0 THEN Ref(factoryObject)
  ELSE IF Truthy(fallbackAccessor)
       THEN IF fallbackAccessor.type = "function"
            THEN FallbackResult(node)
            ELSE fallbackAccessor
       ELSE Null

\* a call of the function createAccessor(THREE, fallbackAccessor,
\* typeAttribute) returns, for a node
createAccessor(THREE, fallbackAccessor, typeAttribute, node) ==
  /\ CreateObjectBody(node, THREE, typeAttribute)
  /\ last' = [op |-> "accessor",
              factoryObject |-> CreateObjectReturn(node, THREE, typeAttribute).ret,
              ret |-> AccessorReturn(
                        CreateObjectReturn(node, THREE, typeAttribute).ret,
                        fallbackAccessor, node)]
  /\ UNCHANGED <<managerState, graphVars>>

\* a direct call of getGeometry(key, createFn): last'.ret is the geometry
getGeometryCall(key, createFn) ==
  LET g == getGeometry(geometryCache, key, resourceCounter, createFn)
      calls == CountCall(createCalls.geometry, key, g)
  IN /\ g.counter <= MaxResources
     /\ CallsBounded(calls)
     /\ geometryCache' = g.cache
     /\ resourceCounter' = g.counter
     /\ createCalls' = [createCalls EXCEPT !.geometry = calls]
     /\ last' = [op |-> "getGeometry", key |-> key, ret |-> g.res,
                 invoked |-> g.invoked, threw |-> g.threw]
     /\ UNCHANGED <<typeRegistry, objectPools, activeObjects, materialCache,
                    meshes, disposed, handedOut>>
     /\ UNCHANGED <<managerState, graphVars>>

\* a direct call of getMaterial(key, createFn): last'.ret is the material
getMaterialCall(key, createFn) ==
  LET m == getMaterial(materialCache, key, resourceCounter, createFn)
      calls == CountCall(createCalls.material, key, m)
  IN /\ m.counter <= MaxResources
     /\ CallsBounded(calls)
     /\ materialCache' = m.cache
     /\ resourceCounter' = m.counter
     /\ createCalls' = [createCalls EXCEPT !.material = calls]
     /\ last' = [op |-> "getMaterial", key |-> key, ret |-> m.res,
                 invoked |-> m.invoked, threw |-> m.threw]
     /\ UNCHANGED <<typeRegistry, objectPools, activeObjects, geometryCache,
                    meshes, disposed, handedOut>>
     /\ UNCHANGED <<managerState, graphVars>>

----------------------------------------------------------------------------
(* getEasing called by itself *)

\* a caller's own easing function
customFn == [type |-> "function", of |-> "caller", name |-> "customFn"]

\* a direct call of getEasing(easingOrName): last'.ret is what it returns
getEasingCall(easingOrName) ==
  /\ last' = [op |-> "getEasing", arg |-> easingOrName,
              ret |-> getEasing(easingOrName)]
  /\ UNCHANGED <<managerState, factoryVars, graphVars>>

----------------------------------------------------------------------------
(* The graph's API loader: initGraphFromApi, loadNextNodes *)

MaxRequests == 2    \* at most this many fetches are pending at once
MaxNodes == 4       \* the graph holds at most this many nodes
MaxLinks == 3       \* the graph holds at most this many links

\* a number; its field is named apart from a string's
Number(n) == [type |-> "number", number |-> n]

\* object[key], undefined when the object has no such property
Get(object, key) ==
  IF key \in DOMAIN object THEN object[key] ELSE [type |-> "undefined"]

Digits == <<"0", "1", "2", "3", "4", "5", "6", "7", "8", "9">>

\* the decimal digits of a natural number
RECURSIVE NumberToString(_)
NumberToString(n) ==
  IF n < 10 THEN Digits[n + 1]
  ELSE NumberToString(n \div 10) \o Digits[(n % 10) + 1]

\* `${value}` in a template string
AsString(value) ==
  CASE value.type = "string"    -> value.value
    [] value.type = "number"    -> NumberToString(value.number)
    [] value.type = "undefined" -> "undefined"
    [] OTHER                    -> "[object Object]"

\* the elements of an array
Elements(array) == {array[i] : i \in 1..Len(array)}

\* getNodeId: node => node[state.nodeIdAccessor || 'id']
getNodeId(accessor, node) == Get(node, IF accessor = "" THEN "id" ELSE accessor)

\* link => link[state.linkSource || 'source'], with the default accessor
getLinkSource(link) == Get(link, "source")

\* link => link[state.linkTarget || 'target'], with the default accessor
getLinkTarget(link) == Get(link, "target")

\* the key of a link of the graph: an end that is an object stands for the
\* id of that node
ExistingLinkKey(accessor, link) ==
  LET source == getLinkSource(link)
      target == getLinkTarget(link)
      sourceId == IF source.type = "object"
                  THEN getNodeId(accessor, source) ELSE source
      targetId == IF target.type = "object"
                  THEN getNodeId(accessor, target) ELSE target
  IN AsString(sourceId) \o "->" \o AsString(targetId)

\* the key of a link of the response
NewLinkKey(link) ==
  AsString(getLinkSource(link)) \o "->" \o AsString(getLinkTarget(link))

\* (newData.nodes || []).filter(node => !existingNodeIds.has(getNodeId(node)))
newNodes(currentData, newData, accessor) ==
  LET existingNodeIds ==
        {getNodeId(accessor, node) : node \in Elements(currentData.nodes)}
      keep(node) == getNodeId(accessor, node) \notin existingNodeIds
  IN SelectSeq(IF Has(newData, "nodes") THEN newData.nodes ELSE <<>>, keep)

\* (newData.links || []).filter(link => !existingLinks.has(key of link))
newLinks(currentData, newData, accessor) ==
  LET existingLinks ==
        {ExistingLinkKey(accessor, link) : link \in Elements(currentData.links)}
      keep(link) == NewLinkKey(link) \notin existingLinks
  IN SelectSeq(IF Has(newData, "links") THEN newData.links ELSE <<>>, keep)

mergedData(currentData, added) ==
  [nodes |-> currentData.nodes \o added.nodes,
   links |-> currentData.links \o added.links]

\* errors: the one a failed fetch rejects with, the one made for a response
\* that is not ok, the one a caller's onApiError throws
NetworkError == [type |-> "error", message |-> "Network error"]

HttpError(status) ==
  [type |-> "error",
   message |-> "HTTP error! status: " \o NumberToString(status)]

HandlerError == [type |-> "error", message |-> "handler failed"]

\* the callbacks set as onApiError: the default one, a caller's that
\* returns, a caller's that throws
Handlers == {"default", "returns", "throws"}

\* what the first then-callback hands on: the response's data, or the error
\* of a rejected fetch or of a response that is not ok
Responded(outcome) ==
  IF outcome.fetch = "rejects"
  THEN [threw |-> TRUE, error |-> outcome.error]
  ELSE IF ~outcome.ok
       THEN [threw |-> TRUE, error |-> HttpError(outcome.status)]
       ELSE [threw |-> FALSE, data |-> outcome.data]

\* Caught without the call of onApiError
CaughtSilently(handler, error, method) ==
  [settled |-> "rejected", value |-> error, errorCalls |-> <<>>]

\* the catch-callback: state.onApiError(error, method); throw error
Caught(handler, error, method) ==
  [settled |-> "rejected",
   value |-> IF handler = "throws" THEN HandlerError ELSE error,
   errorCalls |-> <<[error |-> error, method |-> method]>>]

Resolved(value) ==
  [settled |-> "resolved", value |-> value, errorCalls |-> <<>>]

\* graph.nodeId(accessor)
setNodeId(accessor) ==
  /\ nodeIdAccessor' = accessor
  /\ last' = [op |-> "nodeId"]
  /\ UNCHANGED <<graphData, onApiError, requests>>
  /\ UNCHANGED <<managerState, factoryVars, hoverVars, loopVars>>

\* graph.onApiError(handler)
setOnApiError(handler) ==
  /\ onApiError' = handler
  /\ last' = [op |-> "onApiError"]
  /\ UNCHANGED <<graphData, nodeIdAccessor, requests>>
  /\ UNCHANGED <<managerState, factoryVars, hoverVars, loopVars>>

\* the node a link end names: the force layout replaces the ids at the
\* ends of the graph's links by the node objects
NodeOf(accessor, nodes, end) ==
  IF end.type = "object" THEN end
  ELSE LET hits == {i \in 1..Len(nodes) : getNodeId(accessor, nodes[i]) = end}
       IN IF hits = {} THEN end
          ELSE nodes[CHOOSE i \in hits : \A j \in hits : j <= i]

\* the links with the nodes at their ends
RECURSIVE Linked(_, _, _)
Linked(accessor, nodes, links) ==
  IF links = <<>> THEN <<>>
  ELSE <<[Head(links) EXCEPT
            !.source = NodeOf(accessor, nodes, Head(links).source),
            !.target = NodeOf(accessor, nodes, Head(links).target)]>>
       \o Linked(accessor, nodes, Tail(links))

\* the layout has taken up the graph's links
linkNodes ==
  /\ \E i \in 1..Len(graphData.links) :
       getLinkSource(graphData.links[i]).type # "object"
  /\ graphData' =
       [graphData EXCEPT
          !.links = Linked(nodeIdAccessor, graphData.nodes, graphData.links)]
  /\ last' = [op |-> "linkNodes"]
  /\ UNCHANGED <<nodeIdAccessor, onApiError, requests>>
  /\ UNCHANGED <<managerState, factoryVars, hoverVars, loopVars>>

\* initGraphFromApi(): the call, up to the pending fetch
initGraphFromApi ==
  /\ Len(requests) < MaxRequests
  /\ requests' = Append(requests, "initGraphFromApi")
  /\ last' = [op |-> "initGraphFromApi", settled |-> "pending"]
  /\ UNCHANGED <<graphData, nodeIdAccessor, onApiError>>
  /\ UNCHANGED <<managerState, factoryVars, hoverVars, loopVars>>

\* the fetch of the i-th pending call, one of initGraphFromApi, settles
initGraphSettles(i, outcome) ==
  /\ i \in 1..Len(requests)
  /\ requests[i] = "initGraphFromApi"
  /\ requests' = Splice(requests, i)
  /\ LET r == Responded(outcome)
     IN IF r.threw
        THEN /\ graphData' = graphData
             /\ last' = Spread([op |-> "initGraphFromApi", outcome |-> outcome],
                               Caught(onApiError, r.error, "initGraphFromApi"))
        ELSE /\ graphData' = r.data
             /\ last' = Spread([op |-> "initGraphFromApi", outcome |-> outcome],
                               Resolved(r.data))
  /\ UNCHANGED <<nodeIdAccessor, onApiError>>
  /\ UNCHANGED <<managerState, factoryVars, hoverVars, loopVars>>

\* arguments of loadNextNodes: arrays of node ids, or something else
Array(items) == [type |-> "array", items |-> items]

\* loadNextNodes(nodeIds): the call, up to the pending fetch
loadNextNodes(nodeIds) ==
  /\ IF nodeIds.type # "array" \/ Len(nodeIds.items) = 0
     THEN /\ requests' = requests
          /\ last' = Spread([op |-> "loadNextNodes"],
                            Resolved([nodes |-> <<>>, links |-> <<>>]))
     ELSE /\ Len(requests) < MaxRequests
          /\ requests' = Append(requests, "loadNextNodes")
          /\ last' = [op |-> "loadNextNodes", settled |-> "pending"]
  /\ UNCHANGED <<graphData, nodeIdAccessor, onApiError>>
  /\ UNCHANGED <<managerState, factoryVars, hoverVars, loopVars>>

\* the fetch of the i-th pending call, one of loadNextNodes, settles
loadNextSettles(i, outcome) ==
  /\ i \in 1..Len(requests)
  /\ requests[i] = "loadNextNodes"
  /\ requests' = Splice(requests, i)
  /\ LET r == Responded(outcome)
     IN IF r.threw
        THEN /\ graphData' = graphData
             /\ last' = Spread([op |-> "loadNextNodes", outcome |-> outcome],
                               Caught(onApiError, r.error, "loadNextNodes"))
        ELSE LET added == [nodes |-> newNodes(graphData, r.data, nodeIdAccessor),
                           links |-> newLinks(graphData, r.data, nodeIdAccessor)]
             IN /\ Len(graphData.nodes) + Len(added.nodes) <= MaxNodes
                /\ Len(graphData.links) + Len(added.links) <= MaxLinks
                /\ graphData' = mergedData(graphData, added)
                /\ last' = Spread([op |-> "loadNextNodes", outcome |-> outcome],
                                  Resolved(added))
  /\ UNCHANGED <<nodeIdAccessor, onApiError>>
  /\ UNCHANGED <<managerState, factoryVars, hoverVars, loopVars>>

----------------------------------------------------------------------------
(* The graph's hover handler *)

\* the object of a link
LinkObject == "l1"

\* what getGraphObj finds for the object under the pointer: nothing, the
\* object of a node or the object of a link
HoverTargets == Objects \cup {NullObject, LinkObject}

\* hoverObj && hoverObj.__graphObjType === 'node'
IsNodeObject(obj) == obj \in Objects

\* the manager's state, as the calls of one handler hand it on
ManagerOf ==
  [map |-> objectAnimations, tracked |-> animatedObjects,
   counter |-> animationIdCounter, objs |-> objects, g |-> ghost]

\* startAnimation(object, animationName, options) in the manager state m:
\* the state after the call, the id it returns (-1 for none) and whether
\* it leaves by an exception
StartEffect(m, object, animationName, options) ==
  IF object = NullObject \/ animationName \notin DOMAIN animationTypes
  THEN [state |-> m, ret |-> -1, threw |-> FALSE]
  ELSE
    LET animType == animationTypes[animationName]
        animations == IF object \in DOMAIN m.map THEN m.map[object] ELSE <<>>
        existing == FindExisting(animations, animationName)
        id == m.counter + 1
    IN IF existing # 0
       THEN [state |->
               [m EXCEPT
                  !.map = SetList(m.map, object,
                            [animations EXCEPT
                               ![existing] = UpdateExisting(@, animType, options)]),
                  !.g = [m.g EXCEPT ![animations[existing].id].touched = TRUE]],
             ret |-> animations[existing].id, threw |-> FALSE]
       ELSE IF animType.init /\ animType.kind = "broken"
       THEN [state |-> [m EXCEPT !.map = SetList(m.map, object, animations)],
             ret |-> -1, threw |-> TRUE]
       ELSE [state |->
               [map |-> SetList(m.map, object,
                          Append(animations,
                                 NewInstance(id, animationName, animType,
                                             m.objs[object], options))),
                tracked |-> m.tracked \cup {object},
                counter |-> id,
                objs |-> [m.objs EXCEPT ![object] =
                            InitObject(animType, @,
                                       MergedOptions(animType, options))],
                g |-> SetList(m.g, id,
                        [pre |-> m.objs[object],
                         origin |-> IF Len(animations) > 0
                                    THEN m.g[animations[1].id].origin
                                    ELSE m.objs[object],
                         stopAt |-> NaN, stopTd |-> NaN,
                         byCall |-> FALSE, touched |-> FALSE,
                         foreign |-> FALSE])],
             ret |-> id, threw |-> FALSE]

\* stopAnimation(object, animationName) in the manager state m: the state
\* after the call
GracefulStopEffect(m, object, animationName) ==
  LET list == IF object \in DOMAIN m.map THEN m.map[object] ELSE <<>>
      r == StopEffect(m.map, m.tracked, object, m.objs[object],
                      [by |-> "name", name |-> animationName], FALSE)
  IN [m EXCEPT !.map = r.map, !.tracked = r.tracked,
               !.objs = [m.objs EXCEPT ![object] = r.obj],
               !.g = MarkStopped(m.g, r.hit, list)]

\* the nodeHoverAnimation prop is set
setNodeHoverAnimation(animationName) ==
  /\ animationName # nodeHoverAnimation
  /\ nodeHoverAnimation' = animationName
  /\ last' = [op |-> "nodeHoverAnimation"]
  /\ UNCHANGED <<hoverObj, hoverStarted>>
  /\ UNCHANGED <<managerState, factoryVars, graphData, nodeIdAccessor,
                 onApiError, requests, loopVars>>

\* the onHover handler, called with the object under the pointer: when
\* that is not the hovered object and nodeHoverAnimation is set, the
\* animation of that name is stopped on the object hovered before and
\* started on the new one, if they are nodes.  An exception of
\* startAnimation ends the handler before state.hoverObj is set
onHover(obj) ==
  /\ obj # hoverObj
  /\ \E stopped \in
          {IF nodeHoverAnimation # NoHoverAnimation /\ IsNodeObject(hoverObj)
           THEN GracefulStopEffect(ManagerOf, hoverObj, nodeHoverAnimation)
           ELSE ManagerOf} :
     \E started \in
          {IF nodeHoverAnimation # NoHoverAnimation /\ IsNodeObject(obj)
           THEN StartEffect(stopped, obj, nodeHoverAnimation, NoOptions)
           ELSE [state |-> stopped, ret |-> -1, threw |-> FALSE]} :
       /\ started.state.counter <= MaxId
       /\ last' = [op |-> "onHover", ret |-> started.ret,
                   threw |-> started.threw]
       /\ objectAnimations' = started.state.map
       /\ animatedObjects' = started.state.tracked
       /\ animationIdCounter' = started.state.counter
       /\ objects' = started.state.objs
       /\ ghost' = started.state.g
       /\ hoverStarted' = hoverStarted \cup
                            (IF started.ret > 0 THEN {started.ret} ELSE {})
       /\ hoverObj' = IF started.threw THEN hoverObj ELSE obj
  /\ UNCHANGED <<animationTypes, now, nodeHoverAnimation>>
  /\ UNCHANGED <<factoryVars, graphData, nodeIdAccessor, onApiError,
                 requests, loopVars>>

----------------------------------------------------------------------------
(* The graph's frame cycle: pauseAnimation, resumeAnimation, _animationCycle *)

\* _animationCycle: the manager's tick, the force graph's tick and the
\* render, then the request of the next frame.  pending are the requested
\* frames when the cycle starts; a callback called in the cycle may call
\* pauseAnimation (pauses), which cancels the frame of
\* state.animationFrameRequestId and sets that to null
AnimationCycle(deltaTime, pauses, pending, op) ==
  /\ frameCounter < MaxFrames
  /\ TickBody(deltaTime, {}, NoStops, op)
  /\ frameCounter' = frameCounter + 1
  /\ animationFrameRequestId' = frameCounter + 1
  /\ frameRequests' =
       (IF pauses THEN pending \ {animationFrameRequestId} ELSE pending)
         \cup {frameCounter + 1}

\* the browser runs a requested animation frame
animationFrame(id, deltaTime, pauses) ==
  /\ id \in frameRequests
  /\ AnimationCycle(deltaTime, pauses, frameRequests \ {id}, "animationCycle")
  /\ paused' = (paused \/ pauses)
  /\ UNCHANGED <<factoryVars, graphData, nodeIdAccessor, onApiError,
                 requests, hoverVars>>

\* pauseAnimation(), called between two frames
pauseAnimation ==
  /\ IF animationFrameRequestId # 0
     THEN /\ frameRequests' = frameRequests \ {animationFrameRequestId}
          /\ animationFrameRequestId' = 0
     ELSE UNCHANGED <<frameRequests, animationFrameRequestId>>
  /\ paused' = TRUE
  /\ last' = [op |-> "pauseAnimation"]
  /\ UNCHANGED frameCounter
  /\ UNCHANGED <<managerState, factoryVars, graphData, nodeIdAccessor,
                 onApiError, requests, hoverVars>>

\* resumeAnimation(), called between two frames: it runs a cycle itself
\* when no frame is requested
resumeAnimation(deltaTime) ==
  /\ IF animationFrameRequestId = 0
     THEN AnimationCycle(deltaTime, FALSE, frameRequests, "resumeAnimation")
     ELSE /\ last' = [op |-> "resumeAnimation"]
          /\ UNCHANGED <<managerState, animationFrameRequestId,
                         frameRequests, frameCounter>>
  /\ paused' = FALSE
  /\ UNCHANGED <<factoryVars, graphData, nodeIdAccessor, onApiError,
                 requests, hoverVars>>

----------------------------------------------------------------------------
(* The animation manager under arbitrary calls *)

DeltaTimes == {0, 1, 2}

OneShot == [loop |-> FALSE, duration |-> 1]
SlowIn == [transitionDuration |-> 2]
SlowFade == [loop |-> FALSE, duration |-> 1, transitionDuration |-> 2]

NameSelectors(names) == {[by |-> "name", name |-> n] : n \in names}

\* Lifecycle of the instances of one type on one object, under every call of
\* the manager, at one frame per time unit
Next ==
  \/ registerAnimation(Str("pulse"), PulseModule)
  \/ \E options \in {NoOptions, OneShot} :
       startAnimation("o1", "pulse", options)
  \/ \E sel \in Selectors, immediate \in BOOLEAN :
       stopAnimation("o1", sel, immediate)
  \/ \E options \in {NoOptions, OneShot}, immediate \in BOOLEAN :
       toggleAnimation("o1", "pulse", options, immediate)
  \/ tick(1, {})
  \/ \E immediate \in BOOLEAN : clear(immediate)

Spec == Init /\ [][Next]_vars

\* Two built-in types that change scale and rotation of one object, stopped
\* at once or by the end of their duration
NextRestore ==
  \/ \E name \in {"pulse", "spin"} : \E config \in Configs(name) :
       registerAnimation(Str(name), config)
  \/ \E name \in {"pulse", "spin"}, options \in {NoOptions, OneShot} :
       startAnimation("o1", name, options)
  \/ \E sel \in NameSelectors({"pulse", "spin"}) :
       stopAnimation("o1", sel, TRUE)
  \/ tick(1, {})

SpecRestore == Init /\ [][NextRestore]_vars

\* A type whose update can throw, on two objects
NextFault ==
  \/ registerAnimation(Str("test"), TestAnimation)
  \/ \E object \in Objects : startAnimation(object, "test", NoOptions)
  \/ \E object \in Objects, immediate \in BOOLEAN :
       stopAnimation(object, [by |-> "name", name |-> "test"], immediate)
  \/ \E faults \in SUBSET Throwers : tick(1, faults)

SpecFault == Init /\ [][NextFault]_vars

\* One-shot and fading instances under frames of different lengths
NextTiming ==
  \/ registerAnimation(Str("test"), TestAnimation)
  \/ \E options \in {SlowFade, [transitionDuration |-> 0]} :
       startAnimation("o1", "test", options)
  \/ stopAnimation("o1", [by |-> "name", name |-> "test"], FALSE)
  \/ \E deltaTime \in DeltaTimes : tick(deltaTime, {})

SpecTiming == Init /\ [][NextTiming]_vars

\* Transitions in of different lengths under frames of different lengths
NextProgress ==
  \/ registerAnimation(Str("test"), TestAnimation)
  \/ \E options \in {NoOptions, SlowIn, OneShot} :
       startAnimation("o1", "test", options)
  \/ stopAnimation("o1", [by |-> "all"], TRUE)
  \/ \E deltaTime \in DeltaTimes : tick(deltaTime, {})

SpecProgress == Init /\ [][NextProgress]_vars

\* names and descriptors handed to registerAnimation, valid and invalid
RegisterNames == {Str("test"), Str(""), NotAString}

RegisterConfigs == {TestAnimation, TestRedefined, NoUpdateConfig}

\* Registrations (valid, invalid, repeated) under running instances, and
\* starts on an object or on none, of a registered name or another
NextRegistry ==
  \/ \E name \in RegisterNames, config \in RegisterConfigs :
       registerAnimation(name, config)
  \/ \E object \in {"o1", NullObject}, name \in {"test", "spin"},
        options \in {NoOptions, OneShot} :
       startAnimation(object, name, options)
  \/ stopAnimation("o1", [by |-> "all"], TRUE)
  \/ tick(1, {})

SpecRegistry == Init /\ [][NextRegistry]_vars

\* A type unregistered and registered again under instances that run or
\* fade on two objects
NextUnregister ==
  \/ registerAnimation(Str("spin"), SpinModule)
  \/ \E name \in {"spin", "test"} : unregisterAnimation(name)
  \/ \E object \in Objects : startAnimation(object, "spin", NoOptions)
  \/ stopAnimation("o1", [by |-> "all"], FALSE)
  \/ tick(1, {})

SpecUnregister == Init /\ [][NextUnregister]_vars

\* what the update functions of the caller-defined instances call during a
\* tick: nothing, or stopAnimation(object, selector, true) from the update
\* of one instance
ReentrantStops ==
  {NoStops} \cup
  {id :> sel : id \in Throwers,
               sel \in {[by |-> "all"]} \cup NameSelectors({"test", "spin"})}

\* Two types on one object, the update function of one of which stops
\* instances of the object during the tick
NextReentrant ==
  \/ \E name \in {"test", "spin"} : \E config \in Configs(name) :
       registerAnimation(Str(name), config)
  \/ \E name \in {"test", "spin"} : startAnimation("o1", name, NoOptions)
  \/ stopAnimation("o1", [by |-> "all"], TRUE)
  \/ \E stops \in ReentrantStops : tickCalling(1, {}, stops)

SpecReentrant == Init /\ [][NextReentrant]_vars

\* Every way an instance can end: stopped at once, faded out after a stop
\* or the end of its duration, removed after a fault, dropped with its type
NextLifecycle ==
  \/ registerAnimation(Str("test"), TestAnimation)
  \/ unregisterAnimation("test")
  \/ \E options \in {NoOptions, OneShot} :
       startAnimation("o1", "test", options)
  \/ \E immediate \in BOOLEAN :
       stopAnimation("o1", [by |-> "all"], immediate)
  \/ \E faults \in {{}, Throwers} : tick(1, faults)

SpecLifecycle == Init /\ [][NextLifecycle]_vars

\* Stops by name, by id and of all, at once and graceful, on an object
\* that holds running and fading instances of two types, beside another
\* object's instances
NextStop ==
  \/ \E name \in {"test", "spin"} : \E config \in Configs(name) :
       registerAnimation(Str(name), config)
  \/ \E object \in Objects, name \in {"test", "spin"} :
       startAnimation(object, name, NoOptions)
  \/ \E sel \in Selectors, immediate \in BOOLEAN :
       stopAnimation("o1", sel, immediate)

SpecStop == Init /\ [][NextStop]_vars

\* Two objects' lists created, filled, emptied and dropped by starts, stops
\* and ticks, one of the two types failing in its init function
NextTracking ==
  \/ registerAnimation(Str("test"), TestAnimation)
  \/ registerAnimation(Str("broken"), ThrowingInit)
  \/ \E object \in Objects, name \in {"test", "broken"} :
       startAnimation(object, name, NoOptions)
  \/ \E immediate \in BOOLEAN :
       stopAnimation("o1", [by |-> "all"], immediate)
  \/ tick(1, {})

SpecTracking == Init /\ [][NextTracking]_vars

\* the materials of the animated object and the color options of glow
Materials ==
  {StandardMaterial(Black, Unit), StandardMaterial(Red, 0), BasicMaterial}

GlowOptions == {NoOptions, [color |-> Num(Red)], [color |-> Num(Black)]}

\* An object with or without a material, animated by glow and by a type
\* that moves it and counts the calls of its cleanup
NextSnapshot ==
  \/ registerAnimation(Str("glow"), GlowModule)
  \/ registerAnimation(Str("probe"), ProbeAnimation)
  \/ setMaterial("o1", StandardMaterial(Red, 0))
  \/ \E name \in {"glow", "probe"} : startAnimation("o1", name, NoOptions)
  \/ \E sel \in NameSelectors({"glow", "probe"}), immediate \in BOOLEAN :
       stopAnimation("o1", sel, immediate)
  \/ tick(1, {})

SpecSnapshot == Init /\ [][NextSnapshot]_vars

\* Instances of two types on one object that overlap in time: both types
\* at once, and a type started again while its last instance fades out;
\* every instance is removed by a stop
NextOverlap ==
  \/ \E name \in {"pulse", "spin"} : \E config \in Configs(name) :
       registerAnimation(Str(name), config)
  \/ \E name \in {"pulse", "spin"} : startAnimation("o1", name, NoOptions)
  \/ \E sel \in NameSelectors({"pulse", "spin"}), immediate \in BOOLEAN :
       stopAnimation("o1", sel, immediate)
  \/ tick(1, {})

SpecOverlap == Init /\ [][NextOverlap]_vars

\* Glow with every color option on every material, stopped at once or
\* faded out
NextGlow ==
  \/ registerAnimation(Str("glow"), GlowModule)
  \/ \E material \in Materials : setMaterial("o1", material)
  \/ \E options \in GlowOptions : startAnimation("o1", "glow", options)
  \/ \E immediate \in BOOLEAN :
       stopAnimation("o1", [by |-> "all"], immediate)
  \/ tick(1, {})

SpecGlow == Init /\ [][NextGlow]_vars

\* animation names given to the nodeHoverAnimation prop
HoverAnimations == {NoHoverAnimation, "test", "probe"}

\* Hover events on nodes, a link and the background while the
\* nodeHoverAnimation prop is set, changed and reset
NextHover ==
  \/ registerAnimation(Str("test"), TestAnimation)
  \/ registerAnimation(Str("probe"), ProbeAnimation)
  \/ \E animationName \in HoverAnimations :
       setNodeHoverAnimation(animationName)
  \/ \E obj \in HoverTargets : onHover(obj)

SpecHover == Init /\ [][NextHover]_vars

\* time between two frames
FrameTimes == {0, 1}

\* The frame loop with pauseAnimation and resumeAnimation called between
\* frames and pauseAnimation called by a callback inside a frame, while an
\* animation runs
NextFrames ==
  \/ registerAnimation(Str("test"), TestAnimation)
  \/ startAnimation("o1", "test", NoOptions)
  \/ \E id \in 1..MaxFrames, deltaTime \in FrameTimes, pauses \in BOOLEAN :
       animationFrame(id, deltaTime, pauses)
  \/ pauseAnimation
  \/ \E deltaTime \in FrameTimes : resumeAnimation(deltaTime)

SpecFrames == Init /\ [][NextFrames]_vars

\* Instances created and removed on two objects by a sequence of managers
NextIds ==
  \/ registerAnimation(Str("test"), TestAnimation)
  \/ newManager
  \/ \E object \in Objects : startAnimation(object, "test", NoOptions)
  \/ \E object \in Objects, immediate \in BOOLEAN :
       stopAnimation(object, [by |-> "all"], immediate)

SpecIds == Init /\ [][NextIds]_vars

\* The factory under every call, with the creators of the built-in types
FactoryNext ==
  \/ \E typeName \in TypeNames : registerType(typeName, typeName)
  \/ \E typeName \in TypeNames : unregisterType(typeName)
  \/ \E node \in Nodes : createObject(node, "THREE", DefaultAttribute)
  \/ \E nodeId \in NodeIds : releaseObject(nodeId)
  \/ clearPools
  \/ clearFactory
  \/ disposeCache
  \/ dispose

FactorySpec == Init /\ [][FactoryNext]_vars

\* cube nodes with different attributes: the default ones, a colour, a size
ReuseNodes ==
  {[id |-> 1, nodeThreeObjectType |-> "cube"],
   [id |-> 2, nodeThreeObjectType |-> "cube", color |-> "#ff0000"],
   [id |-> 2, nodeThreeObjectType |-> "cube", cubeSize |-> 8]}

\* The pool of one type under nodes with different attributes
NextReuse ==
  \/ registerType("cube", "cube")
  \/ \E node \in ReuseNodes : createObject(node, "THREE", DefaultAttribute)
  \/ \E nodeId \in NodeIds : releaseObject(nodeId)
  \/ clearPools

SpecReuse == Init /\ [][NextReuse]_vars

\* keys handed to getGeometry and getMaterial: the ones the cube creator
\* builds for a default node
CacheKeys == {"cube_4", "lambert_#ffffaa_0.75"}

\* The resource caches under direct calls and disposeCache, with create
\* functions that return or throw
CacheNext ==
  \/ \E key \in CacheKeys, createFn \in CreateFns :
       getGeometryCall(key, createFn)
  \/ \E key \in CacheKeys, createFn \in CreateFns :
       getMaterialCall(key, createFn)
  \/ disposeCache

CacheSpec == Init /\ [][CacheNext]_vars

\* type attributes handed to createObject and createAccessor
Attributes == {DefaultAttribute, "shape"}

\* nodes that carry a type under one of the attributes, or none: a type
\* that gets registered with the cube creator, one that gets registered with
\* the faulty creator, one that is never registered
FaultyNodes ==
  {[id |-> i, nodeThreeObjectType |-> "cube"] : i \in NodeIds}
  \cup {[id |-> 1, nodeThreeObjectType |-> t] : t \in {"errorType", "cone"}}
  \cup {[id |-> 1, shape |-> "cube"], [id |-> 2]}

\* The factory with a creator that throws, a render library whose
\* constructors throw and nodes without a type
FaultyNext ==
  \/ registerType("cube", "cube")
  \/ registerType("errorType", FaultyCreator)
  \/ unregisterType("cube")
  \/ \E node \in FaultyNodes, THREE \in RenderLibs, typeAttribute \in Attributes :
       createObject(node, THREE, typeAttribute)
  \/ \E nodeId \in NodeIds : releaseObject(nodeId)

FaultySpec == Init /\ [][FaultyNext]_vars

\* Accessors with and without fallbacks, for nodes with a registered type,
\* a type whose creator throws, an unregistered type and no type
AccessorNext ==
  \/ registerType("cube", "cube")
  \/ registerType("errorType", FaultyCreator)
  \/ unregisterType("cube")
  \/ \E nodeId \in NodeIds : releaseObject(nodeId)
  \/ \E node \in FaultyNodes, fallbackAccessor \in Fallbacks,
        typeAttribute \in Attributes :
       createAccessor("THREE", fallbackAccessor, typeAttribute, node)

AccessorSpec == Init /\ [][AccessorNext]_vars

\* node and link objects of the responses
Node(id, name) == [type |-> "object", id |-> id, name |-> name]

Link(source, target) ==
  [type |-> "object", source |-> source, target |-> target]

\* response bodies in the shape of the tests': a first graph, nodes and
\* links of which some are in the first graph already, the same ids as
\* strings instead of numbers, nodes under another id attribute, a body
\* without links
mockInitialGraphData ==
  [nodes |-> <<Node(Str("a"), "A"), Node(Number(1), "One")>>,
   links |-> <<Link(Number(1), Str("a"))>>]

mockNextNodesData ==
  [nodes |-> <<Node(Str("a"), "A Updated"), Node(Str("b"), "B")>>,
   links |-> <<Link(Number(1), Str("a")), Link(Str("a"), Str("b"))>>]

stringIdData ==
  [nodes |-> <<Node(Str("1"), "One")>>,
   links |-> <<Link(Str("1"), Str("a"))>>]

customIdData ==
  [nodes |-> <<[type |-> "object", customId |-> Str("a"), name |-> "A"],
               [type |-> "object", customId |-> Str("c"), name |-> "C"]>>,
   links |-> <<>>]

nodesOnlyData == [nodes |-> <<Node(Str("b"), "B")>>]

GraphResponses ==
  {mockInitialGraphData, mockNextNodesData, stringIdData, customIdData}

\* how a fetch settles: rejected, answered with a status that is not ok,
\* answered with one of the bodies
Outcomes(bodies) ==
  {[fetch |-> "rejects", error |-> NetworkError],
   [fetch |-> "resolves", ok |-> FALSE, status |-> 500]}
  \cup {[fetch |-> "resolves", ok |-> TRUE, status |-> 200, data |-> d] :
          d \in bodies}

\* the outcomes with a body
Answers(bodies) == {o \in Outcomes(bodies) : o.fetch = "resolves" /\ o.ok}

\* The API loader's merge under calls that overlap, responses that repeat
\* what the graph holds, another id attribute and links taken up by the
\* layout
GraphNext ==
  \/ \E accessor \in {"id", "customId"} : setNodeId(accessor)
  \/ linkNodes
  \/ initGraphFromApi
  \/ \E i \in 1..MaxRequests, outcome \in Answers(GraphResponses) :
       initGraphSettles(i, outcome)
  \/ \E nodeIds \in {Str("a"), Array(<<>>), Array(<<Str("a")>>)} :
       loadNextNodes(nodeIds)
  \/ \E i \in 1..MaxRequests,
        outcome \in Answers(GraphResponses \cup {nodesOnlyData}) :
       loadNextSettles(i, outcome)

GraphSpec == Init /\ [][GraphNext]_vars

\* The API loader under fetches that fail and callbacks that throw
ApiErrorNext ==
  \/ \E handler \in Handlers : setOnApiError(handler)
  \/ initGraphFromApi
  \/ \E i \in 1..MaxRequests, outcome \in Outcomes({mockInitialGraphData}) :
       initGraphSettles(i, outcome)
  \/ loadNextNodes(Array(<<Str("a")>>))
  \/ \E i \in 1..MaxRequests, outcome \in Outcomes({mockNextNodesData}) :
       loadNextSettles(i, outcome)

ApiErrorSpec == Init /\ [][ApiErrorNext]_vars

\* what callers hand to getEasing and pass as the easing option: the
\* names of the table, other names, a function
EasingInputs ==
  {Str(name) : name \in EasingNames \cup {"unknown", "", "constructor",
                                          "__proto__"}}
  \cup {customFn}

\* getEasing under every kind of argument, called by itself and by
\* startAnimation for the easing option
NextEasing ==
  \/ registerAnimation(Str("test"), TestAnimation)
  \/ \E easing \in EasingInputs :
       startAnimation("o1", "test", [easing |-> easing])
  \/ stopAnimation("o1", [by |-> "all"], TRUE)
  \/ \E easingOrName \in EasingInputs : getEasingCall(easingOrName)

SpecEasing == Init /\ [][NextEasing]_vars

TypeOK ==
  /\ animatedObjects \subseteq Objects
  /\ DOMAIN objectAnimations \subseteq Objects
  /\ animationIdCounter \in 0..MaxId
  /\ now \in 0..MaxTime

----------------------------------------------------------------------------
(* Properties of the animation manager *)

Running(list, name) ==
  {i \in 1..Len(list) : list[i].name = name /\ ~list[i].stopping}

\* C1: every object has at most one instance with stopping = false per
\* animation type name
AtMostOneRunning ==
  \A o \in DOMAIN objectAnimations : \A n \in Names :
    Cardinality(Running(objectAnimations[o], n)) <= 1

\* a fading instance and a running instance of one type side by side
FadingBesideRunning ==
  \E o \in DOMAIN objectAnimations :
    \E i, j \in 1..Len(objectAnimations[o]) :
      /\ objectAnimations[o][i].name = objectAnimations[o][j].name
      /\ objectAnimations[o][i].stopping
      /\ ~objectAnimations[o][j].stopping

\* C2, as claimed: stopAnimation(O, T, true) after a start of T and nothing
\* but ticks leaves T not animating and O's scale and rotation at the values
\* they had just before that start
StopRestoresAfterTicks ==
  [][\A o \in Objects : \A n \in Names :
       (last'.op = "stopAnimation"
          /\ stopAnimation(o, [by |-> "name", name |-> n], TRUE)) =>
         /\ ~isAnimating(o, n)'
         /\ \A i \in 1..Len(ListOf(o)) :
              (ListOf(o)[i].name = n /\ ~ghost[ListOf(o)[i].id].touched) =>
                /\ objects'[o].scale = ghost[ListOf(o)[i].id].pre.scale
                /\ objects'[o].rotation = ghost[ListOf(o)[i].id].pre.rotation
    ]_vars

\* C2, amended: a start of a registered type makes isAnimating true;
\* stopAnimation(O, T, true) makes it false, and when a non-stopping instance
\* of T is on O at the call, O's scale and rotation are set back to the
\* values they had just before the start that created that instance
StopRestoresRunning ==
  [][\A o \in Objects : \A n \in Names :
       /\ (/\ last'.op = "startAnimation"
           /\ n \in DOMAIN animationTypes
           /\ \E options \in CallOptions : startAnimation(o, n, options))
            => isAnimating(o, n)'
       /\ (last'.op = "stopAnimation"
           /\ stopAnimation(o, [by |-> "name", name |-> n], TRUE)) =>
            /\ ~isAnimating(o, n)'
            /\ \A i \in Running(ListOf(o), n) :
                 /\ objects'[o].scale = ghost[ListOf(o)[i].id].pre.scale
                 /\ objects'[o].rotation = ghost[ListOf(o)[i].id].pre.rotation
    ]_vars

\* an immediate stop has just removed an instance that frames had animated
StoppedAfterTicks ==
  /\ last.op = "stopAnimation"
  /\ last.immediate
  /\ last.hit # {}
  /\ now > 0

\* the ids registered on any object
AllIds == {a.id : a \in AllInstances}

\* the fade of the instance has lasted its recorded transitionDuration, and
\* time has passed since it began
FadeTimeOver(id) ==
  /\ IsNum(ghost[id].stopAt)
  /\ IsNum(ghost[id].stopTd)
  /\ now > Val(ghost[id].stopAt)
  /\ now - Val(ghost[id].stopAt) >= Val(ghost[id].stopTd)

\* C3, as claimed: an instance that stopAnimation without immediate has put
\* into stopping is removed by the first tick at which the time since that
\* stop is at least its transitionDuration, so no tick leaves such an
\* instance registered
GracefulStopCompletes ==
  last.op = "tick" =>
    \A id \in AllIds : ~(ghost[id].byCall /\ FadeTimeOver(id))

\* C4, as claimed: after a tick every non-looping instance whose elapsed time
\* has reached its duration is stopping, and an instance that a tick has put
\* into stopping is removed by the first tick that comes at least
\* transitionDuration later, whatever the frame length
OneShotCompletes ==
  last.op = "tick" =>
    /\ \A a \in AllInstances :
         (NotLoop(a.options) /\ DurationOver(a, now)) => a.stopping
    /\ \A id \in AllIds : ~(~ghost[id].byCall /\ FadeTimeOver(id))

RepeatedStart(o, n, options) ==
  /\ last'.op = "startAnimation"
  /\ n \in DOMAIN animationTypes
  /\ FindExisting(ListOf(o), n) # 0
  /\ startAnimation(o, n, options)

\* C6, as claimed: a repeated start leaves the instance's resolved options
\* at its previous resolved options overridden by the call's options
RestartMergesOptions ==
  [][\A o \in Objects : \A n \in Names : \A options \in CallOptions :
       RepeatedStart(o, n, options) =>
         LET i == FindExisting(ListOf(o), n)
         IN ListOf(o)'[i].options = Spread(ListOf(o)[i].options, options)
    ]_vars

\* C7: a repeated start returns the id of the running instance, creates no
\* instance, does not run init, and changes nothing of the instance but its
\* options
RestartKeepsInstance ==
  [][\A o \in Objects : \A n \in Names : \A options \in CallOptions :
       RepeatedStart(o, n, options) =>
         LET i == FindExisting(ListOf(o), n)
         IN /\ last'.ret = ListOf(o)[i].id
            /\ ~last'.created
            /\ animationIdCounter' = animationIdCounter
            /\ objects' = objects
            /\ Len(ListOf(o)') = Len(ListOf(o))
            /\ \A j \in 1..Len(ListOf(o)) :
                 [ListOf(o)'[j] EXCEPT !.options = ListOf(o)[j].options]
                   = ListOf(o)[j]
            /\ \A j \in 1..Len(ListOf(o)) :
                 j # i => ListOf(o)'[j] = ListOf(o)[j]
    ]_vars

\* a repeated start has just found an instance that frames had animated
RestartedAfterTicks ==
  /\ last.op = "startAnimation"
  /\ ~last.created
  /\ \E a \in AllInstances :
       a.id = last.ret /\ a.startTime < now /\ IsNum(a.transitionProgress)
         /\ Val(a.transitionProgress) > 0

\* C14, as claimed: toggleAnimation on an object returns true exactly when
\* no non-stopping instance of the type is on the object, and after it
\* isAnimating is true when it returned true and false when it returned
\* false
ToggleReportsState ==
  [][\A o \in Objects : \A n \in Names : \A options \in CallOptions :
     \A immediate \in BOOLEAN :
       (last'.op = "toggleAnimation"
          /\ toggleAnimation(o, n, options, immediate)) =>
         /\ last'.ret = ~isAnimating(o, n)
         /\ last'.ret = isAnimating(o, n)'
    ]_vars

\* C15: startAnimation with no object or with an unregistered name returns
\* -1; it creates no instance, tracks no object, consumes no id and leaves
\* the objects and the registry alone
FailedStartChangesNothing ==
  [][\A o \in Objects \cup {NullObject} : \A n \in Names :
     \A options \in CallOptions :
       (last'.op = "startAnimation"
          /\ (o = NullObject \/ n \notin DOMAIN animationTypes)
          /\ startAnimation(o, n, options)) =>
         /\ last'.ret = -1
         /\ ~last'.created
         /\ UNCHANGED <<animationTypes, animatedObjects, objectAnimations,
                        animationIdCounter, objects>>
    ]_vars

\* a start has just failed while an instance is running and a type is
\* registered
StartFailedBesideRunning ==
  /\ last.op = "startAnimation"
  /\ last.ret = -1
  /\ animatedObjects # {}
  /\ \E a \in AllInstances : ~a.stopping

\* C16: registerAnimation throws exactly when the name is empty or not a
\* string or the descriptor has no update function, and then leaves the
\* registry as it was; otherwise the name maps to the new descriptor, with
\* the optional parts defaulted, and the other names are untouched
RegisterValidates ==
  [][\A name \in RegisterNames : \A config \in RegisterConfigs :
       (last'.op = "registerAnimation" /\ registerAnimation(name, config)) =>
         IF name \in {Str(""), NotAString} \/ config = NoUpdateConfig
         THEN last'.threw /\ animationTypes' = animationTypes
         ELSE /\ ~last'.threw
              /\ DOMAIN animationTypes' = DOMAIN animationTypes \cup {name.value}
              /\ animationTypes'[name.value].kind = config.kind
              /\ animationTypes'[name.value].defaultOptions = config.defaultOptions
              /\ \A n \in DOMAIN animationTypes \ {name.value} :
                   animationTypes'[n] = animationTypes[n]
    ]_vars

\* a registration has just thrown and an earlier registration, made over a
\* still earlier one, is kept
InvalidAfterRedefinition ==
  /\ last.op = "registerAnimation"
  /\ last.threw
  /\ "test" \in DOMAIN animationTypes
  /\ animationTypes["test"].defaultOptions = TestRedefined.defaultOptions
  /\ \E a \in AllInstances :
       a.name = "test" /\ a.options.testOption = "default"

\* the instances of the tracked objects whose name has no descriptor
Unregistered ==
  {a \in AllInstances :
     /\ a.name \notin DOMAIN animationTypes
     /\ \E o \in animatedObjects : a.id \in Ids(ListOf(o))}

\* C17: unregisterAnimation returns whether the name was registered and
\* changes no instance and no object; the next tick removes every instance
\* of an unregistered name from the tracked objects without cleanup, without
\* update and without restoring the snapshot
UnregisteredDropped ==
  [][/\ \A n \in Names :
          (last'.op = "unregisterAnimation" /\ unregisterAnimation(n)) =>
            /\ last'.ret = (n \in DOMAIN animationTypes)
            /\ n \notin DOMAIN animationTypes'
            /\ UNCHANGED <<objectAnimations, animatedObjects, objects>>
     /\ last'.op = "tick" =>
          /\ \A a \in Unregistered :
               /\ a.id \in last'.dropped
               /\ a.id \notin last'.cleaned \cup last'.updated
               /\ a.id \notin AllIds'
          /\ \A o \in animatedObjects :
               (\A a \in AllInstances :
                  a.id \in Ids(ListOf(o)) => a \in Unregistered) =>
                 objects'[o] = objects[o]
    ]_vars

\* a tick has just dropped an instance and left the object away from the
\* snapshot
DroppedUnrestored ==
  /\ last.op = "tick"
  /\ last.dropped # {}
  /\ objects["o1"] # InitialObject
  /\ "o1" \notin DOMAIN objectAnimations

StronglyHeld == animatedObjects

\* C19, as claimed: in no reachable state does the manager's own state hold
\* a strong reference to a target object
NoStrongReference == StronglyHeld = {}

----------------------------------------------------------------------------
(* Properties of the node object factory *)

\* C8, as claimed: no geometry or material that is a value of its cache has
\* had dispose called on it (only disposeCache and dispose, which empty the
\* caches, dispose cached resources)
CachedNeverDisposed ==
  (MapValues(geometryCache) \cup MapValues(materialCache)) \cap disposed = {}

\* the objects of the Active Object Table
ActiveSet == {activeObjects[n].object : n \in DOMAIN activeObjects}

\* C9, as claimed: every object createObject has returned and releaseObject
\* has not released since is in the Active Object Table
HandedOutTracked == handedOut \subseteq ActiveSet

\* C10: createObject for a registered type whose pool is not empty returns
\* the last object of the pool, visible, takes it out of the pool and makes
\* no new mesh or resource; right after a releaseObject of an object of that
\* type it returns the released object
PoolReuse ==
  [][\A node \in Nodes :
       LET typeName == node.nodeThreeObjectType
           pool == PoolOf(typeName)
       IN (/\ last'.op = "createObject"
           /\ typeName \in DOMAIN typeRegistry
           /\ Len(pool) > 0
           /\ createObject(node, "THREE", DefaultAttribute)) =>
            /\ last'.ret = pool[Len(pool)]
            /\ meshes'[last'.ret].visible
            /\ objectPools'[typeName] = SubSeq(pool, 1, Len(pool) - 1)
            /\ ~last'.created
            /\ Len(meshes') = Len(meshes)
            /\ resourceCounter' = resourceCounter
            /\ activeObjects'[node.id].object = last'.ret
            /\ (last.op = "releaseObject" /\ last.typeName = typeName) =>
                 last'.ret = last.object
    ]_vars

\* createObject has just returned a pooled object of a pool that held more
\* than one
PooledObjectReturned ==
  /\ last.op = "createObject"
  /\ last.ret # 0
  /\ ~last.created
  /\ \E n \in DOMAIN activeObjects :
       /\ activeObjects[n].object = last.ret
       /\ Len(PoolOf(activeObjects[n].typeName)) > 0

\* C11, as claimed: releaseObject of an untracked id changes nothing; of a
\* tracked id it hides the object, removes the id from the Active Object
\* Table and leaves the object in the pool of the type it was created as
ReleaseReturnsToPool ==
  [][\A nodeId \in NodeIds :
       (last'.op = "releaseObject" /\ releaseObject(nodeId)) =>
         IF nodeId \notin DOMAIN activeObjects
         THEN UNCHANGED factoryVars
         ELSE \A entry \in {activeObjects[nodeId]} :
                /\ ~meshes'[entry.object].visible
                /\ nodeId \notin DOMAIN activeObjects'
                /\ \E i \in 1..Len(PoolOf(entry.typeName)') :
                     PoolOf(entry.typeName)'[i] = entry.object
    ]_vars

\* the resources that are values of either cache
Cached == MapValues(geometryCache) \cup MapValues(materialCache)

\* a lookup of key in cache (its log, the cache and the calls of the key
\* afterwards) that finds the key, or else memoizes the result of a create
\* function that has to return
LooksUpOnce(log, cache, cacheAfter, callsAfter, key) ==
  /\ callsAfter.returned + callsAfter.threw <= 1
  /\ IF key \in DOMAIN cache
     THEN ~log.invoked /\ log.ret = cache[key] /\ cacheAfter = cache
     ELSE /\ log.invoked /\ ~log.threw
          /\ log.ret \notin Cached
          /\ cacheAfter = SetList(cache, key, log.ret)

\* C12, as claimed: between two disposeCache calls the create function of a
\* key is called at most once; the first getGeometry / getMaterial call for
\* a key stores and returns the create function's result, a later call
\* returns the cached resource without calling the create function, and
\* different keys get separately created resources
CreatesOncePerKey ==
  [][\A key \in CacheKeys : \A createFn \in CreateFns :
       /\ (last'.op = "getGeometry" /\ getGeometryCall(key, createFn)) =>
            LooksUpOnce(last', geometryCache, geometryCache',
                        CallsOf(createCalls'.geometry, key), key)
       /\ (last'.op = "getMaterial" /\ getMaterialCall(key, createFn)) =>
            LooksUpOnce(last', materialCache, materialCache',
                        CallsOf(createCalls'.material, key), key)
    ]_vars

\* a lookup of key in cache that finds the key, or else calls the create
\* function once and memoizes its result unless it throws
LooksUp(log, cache, cacheAfter, callsAfter, key, createFn) ==
  /\ callsAfter.returned <= 1
  /\ IF key \in DOMAIN cache
     THEN ~log.invoked /\ log.ret = cache[key] /\ cacheAfter = cache
     ELSE /\ log.invoked
          /\ IF createFn = "throws"
             THEN log.threw /\ cacheAfter = cache
             ELSE /\ ~log.threw
                  /\ log.ret \notin Cached
                  /\ cacheAfter = SetList(cache, key, log.ret)

\* C12, amended: between two disposeCache calls at most one call of the
\* create function of a key returns; a getGeometry / getMaterial call for a
\* key that is not cached calls the create function once and, if it
\* returns, stores and returns its result (if it throws nothing is stored);
\* a call for a cached key returns the cached resource without calling the
\* create function; different keys get separately created resources
MemoizesPerKey ==
  [][\A key \in CacheKeys : \A createFn \in CreateFns :
       /\ (last'.op = "getGeometry" /\ getGeometryCall(key, createFn)) =>
            LooksUp(last', geometryCache, geometryCache',
                    CallsOf(createCalls'.geometry, key), key, createFn)
       /\ (last'.op = "getMaterial" /\ getMaterialCall(key, createFn)) =>
            LooksUp(last', materialCache, materialCache',
                    CallsOf(createCalls'.material, key), key, createFn)
    ]_vars

\* getGeometry has just returned a cached geometry without calling the
\* create function, with two keys cached and a failed call behind it
CachedGeometryReturned ==
  /\ last.op = "getGeometry"
  /\ ~last.invoked
  /\ last.ret = geometryCache[last.key]
  /\ Cardinality(DOMAIN geometryCache) = 2
  /\ \E k \in DOMAIN createCalls.geometry : createCalls.geometry[k].threw > 0

\* C13: createObject for a node without the type attribute, with an
\* unregistered type, or whose creator throws returns null and leaves the
\* Active Object Table and every pool as they were
CreateFailsSoftly ==
  [][\A node \in FaultyNodes : \A THREE \in RenderLibs :
     \A typeAttribute \in Attributes :
       (last'.op = "createObject"
          /\ createObject(node, THREE, typeAttribute)
          /\ \/ typeAttribute \notin DOMAIN node
             \/ NodeType(node, typeAttribute) \notin DOMAIN typeRegistry
             \/ last'.threw) =>
         /\ last'.ret = 0
         /\ activeObjects' = activeObjects
         /\ objectPools' = objectPools
    ]_vars

\* a creator has just thrown while objects are tracked and pooled
CreatorThrewBesideObjects ==
  /\ last.op = "createObject"
  /\ last.threw
  /\ DOMAIN activeObjects # {}
  /\ \E t \in DOMAIN objectPools : Len(objectPools[t]) > 0

\* C20, as claimed: the accessor returns the object of createObject when
\* that is not null, else the result of the fallback when the fallback is a
\* function, else the fallback itself when one was given, else null
AccessorUsesFallback ==
  [][\A node \in FaultyNodes : \A fallbackAccessor \in Fallbacks :
     \A typeAttribute \in Attributes :
       (last'.op = "accessor"
          /\ createAccessor("THREE", fallbackAccessor, typeAttribute, node)) =>
         /\ last'.factoryObject =
              CreateObjectReturn(node, "THREE", typeAttribute).ret
         /\ last'.ret =
              IF last'.factoryObject # 0 THEN Ref(last'.factoryObject)
              ELSE IF fallbackAccessor.type = "function"
                   THEN FallbackResult(node)
                   ELSE IF fallbackAccessor # Null THEN fallbackAccessor
                        ELSE Null
    ]_vars

\* C20, amended: the accessor returns the object of createObject when that
\* is not null, else the result of the fallback when the fallback is a
\* function, else the fallback itself when a truthy fallback was given, else
\* (no fallback, or a falsy one) null
AccessorUsesTruthyFallback ==
  [][\A node \in FaultyNodes : \A fallbackAccessor \in Fallbacks :
     \A typeAttribute \in Attributes :
       (last'.op = "accessor"
          /\ createAccessor("THREE", fallbackAccessor, typeAttribute, node)) =>
         /\ last'.factoryObject =
              CreateObjectReturn(node, "THREE", typeAttribute).ret
         /\ last'.factoryObject # 0 =>
              /\ last'.factoryObject \in DOMAIN meshes'
              /\ activeObjects'[node.id].object = last'.factoryObject
         /\ last'.ret =
              IF last'.factoryObject # 0 THEN Ref(last'.factoryObject)
              ELSE IF fallbackAccessor.type = "function"
                   THEN FallbackResult(node)
                   ELSE IF fallbackAccessor.type = "object"
                        THEN fallbackAccessor
                        ELSE Null
    ]_vars

\* accessors have returned the result of a fallback function for a node
\* whose creator threw
FallbackCalledAfterThrow ==
  /\ last.op = "accessor"
  /\ last.factoryObject = 0
  /\ last.ret = FallbackResult([id |-> 1])
  /\ "errorType" \in DOMAIN typeRegistry
  /\ DOMAIN activeObjects # {}

----------------------------------------------------------------------------
(* Properties of tick under calls from the update functions *)

\* how often x occurs in seq
Count(seq, x) == Cardinality({k \in 1..Len(seq) : seq[k] = x})

\* C24: within one tick, every instance that is on an object when the tick
\* reaches the object has its update invoked at most once, and every such
\* instance that is still registered when the tick ends was processed
\* exactly once, also when an update function removes instances of the
\* same object with stopAnimation(object, selector, true) during the tick
ReentrantRemovalSafe ==
  [][last'.op = "tick"
     => \A o \in animatedObjects \cap DOMAIN objectAnimations :
          \A id \in Ids(objectAnimations[o]) :
            /\ Count(last'.invoked, id) <= 1
            /\ (o \in DOMAIN objectAnimations' /\ id \in Ids(objectAnimations'[o]))
                 => Count(last'.invoked, id) = 1]_vars

----------------------------------------------------------------------------
(* Properties of the instances' life cycle *)

\* C25: the stop-start time of an instance is written once, when the
\* instance enters the stopping state: no later stopAnimation and no later
\* tick changes it while the instance is stopping
StopStartWrittenOnce ==
  [][\A a \in AllInstances :
       a.stopping
         => \A b \in AllInstances' :
              b.id = a.id => b.stopStartTime = a.stopStartTime]_vars

\* C27: the stopping flag of an instance never goes back to false; an
\* instance leaves its list only by an immediate stop, by the completion of
\* its stop transition, by a fault of its update or because its type is
\* not registered at a tick; the id of a removed instance never comes back;
\* a startAnimation that finds only stopping instances of the type creates
\* an instance with a new id and leaves the others where they are
LifecycleRespected ==
  [][/\ \A a \in AllInstances : \A b \in AllInstances' :
          (b.id = a.id /\ a.stopping) => b.stopping
     /\ \A a \in AllInstances :
          a.id \notin {b.id : b \in AllInstances'}
            => \/ /\ last'.op = "stopAnimation"
                  /\ last'.immediate
                  /\ a.id \in last'.hit
               \/ /\ last'.op = "tick"
                  /\ a.id \in last'.cleaned
               \/ /\ last'.op = "tick"
                  /\ a.id \in last'.faulted
               \/ /\ last'.op = "tick"
                  /\ a.id \in last'.dropped
                  /\ a.name \notin DOMAIN animationTypes
     /\ \A id \in 1..animationIdCounter :
          id \notin {a.id : a \in AllInstances}
            => id \notin {b.id : b \in AllInstances'}
     /\ (last'.op = "startAnimation" /\ last'.ret # -1)
          => IF last'.created
             THEN /\ last'.ret > animationIdCounter
                  /\ AllInstances \subseteq AllInstances'
                  /\ \E b \in AllInstances' :
                       b.id = last'.ret /\ ~b.stopping
             ELSE \E a \in AllInstances :
                    a.id = last'.ret /\ ~a.stopping]_vars

\* an instance was started while the only other one of its type was fading
StartedBesideFading ==
  /\ last.op = "startAnimation"
  /\ last.created
  /\ \E a, b \in AllInstances :
       /\ a.id = last.ret
       /\ b.id < a.id
       /\ b.name = a.name
       /\ b.stopping

\* a number between 0 and 1
InUnitInterval(p) == IsNum(p) /\ 0 <= Val(p) /\ Val(p) <= Unit

\* C28: in every state, and at every invocation of an update function, the
\* transition progress of every instance is a number between 0 and 1
ProgressInRange ==
  /\ \A a \in AllInstances : InUnitInterval(a.transitionProgress)
  /\ last.op = "tick"
       => \A id \in DOMAIN last.passed : InUnitInterval(last.passed[id])

\* the instance's name or id equals the selector, or the selector is omitted
Matches(a, sel) ==
  \/ sel.by = "all"
  \/ sel.by = "name" /\ a.name = sel.name
  \/ sel.by = "id" /\ a.id = sel.id

\* the instances of a list
Instances(list) == {list[i] : i \in 1..Len(list)}

\* C26: stopAnimation(O, sel, immediate) acts only on the instances of O
\* that match sel and are not stopping: these are removed (immediate) or
\* marked stopping; instances of O that do not match or are stopping
\* already, and the instances of other objects, are left unchanged and stay
\* registered
StopActsOnMatches ==
  [][\A object \in Objects, sel \in Selectors, immediate \in BOOLEAN :
       (last'.op = "stopAnimation" /\ stopAnimation(object, sel, immediate))
         => \A before \in {objectAnimations} :
              LET list == IF object \in DOMAIN before THEN before[object]
                          ELSE <<>>
                  acted == {a \in Instances(list) :
                              Matches(a, sel) /\ ~a.stopping}
              IN /\ \A o \in DOMAIN before \ {object} :
                      /\ o \in DOMAIN objectAnimations'
                      /\ objectAnimations'[o] = before[o]
                 /\ \A a \in Instances(list) \ acted :
                      /\ object \in DOMAIN objectAnimations'
                      /\ a \in Instances(objectAnimations'[object])
                 /\ \A a \in acted :
                      IF immediate
                      THEN a.id \notin {b.id : b \in AllInstances'}
                      ELSE \E b \in AllInstances' :
                             b.id = a.id /\ b.stopping]_vars

\* a stop at once has removed an instance and left one that was fading
RemovedBesideFading ==
  /\ last.op = "stopAnimation"
  /\ last.immediate
  /\ last.hit # {}
  /\ \E a \in AllInstances : a.stopping

----------------------------------------------------------------------------
(* Properties of the API loader *)

\* the id a link end stands for: the end itself, or the id of the node at it
EndId(accessor, end) ==
  IF end.type = "object" THEN getNodeId(accessor, end) ELSE end

\* the nodes of a response whose id no node of the graph has
UnknownNodes(data, graph, accessor) ==
  LET known == {getNodeId(accessor, n) : n \in Elements(graph.nodes)}
      unknown(n) == getNodeId(accessor, n) \notin known
  IN SelectSeq(IF Has(data, "nodes") THEN data.nodes ELSE <<>>, unknown)

\* the links of a response whose pair of source and target no link of the
\* graph has
UnknownLinks(data, graph, accessor) ==
  LET known == {<<EndId(accessor, getLinkSource(l)),
                  EndId(accessor, getLinkTarget(l))>> :
                  l \in Elements(graph.links)}
      unknown(l) == <<getLinkSource(l), getLinkTarget(l)>> \notin known
  IN SelectSeq(IF Has(data, "links") THEN data.links ELSE <<>>, unknown)

\* C21: when loadNextNodes resolves after a fetch, the graph's nodes are the
\* previous nodes followed by exactly the response nodes whose id was not in
\* the graph, its links are the previous links followed by exactly the
\* response links whose pair of source and target was not in the graph, and
\* the resolved value holds exactly the added nodes and links
LoadMergesNew ==
  [][(/\ last'.op = "loadNextNodes"
      /\ last'.settled = "resolved"
      /\ Has(last', "outcome"))
     => LET data == last'.outcome.data
            addedNodes == UnknownNodes(data, graphData, nodeIdAccessor)
            addedLinks == UnknownLinks(data, graphData, nodeIdAccessor)
        IN /\ graphData'.nodes = graphData.nodes \o addedNodes
           /\ graphData'.links = graphData.links \o addedLinks
           /\ last'.value = [nodes |-> addedNodes, links |-> addedLinks]]_vars

\* the error of a fetch that failed: the one it was rejected with, or the
\* one made for the status of a response that is not ok
FetchError(outcome) ==
  IF outcome.fetch = "rejects" THEN outcome.error ELSE HttpError(outcome.status)

\* the fetch of the call that settled in this step failed
FetchFailed ==
  /\ last'.op \in {"initGraphFromApi", "loadNextNodes"}
  /\ Has(last', "outcome")
  /\ (last'.outcome.fetch = "rejects" \/ ~last'.outcome.ok)

\* C22 as stated: when the fetch rejects or the response is not ok,
\* initGraphFromApi and loadNextNodes call onApiError exactly once with the
\* error and the name of the method, the returned promise rejects with that
\* error, and the graph data is left as it was
FailureReportedAndRethrown ==
  [][FetchFailed
     => /\ last'.errorCalls =
             <<[error |-> FetchError(last'.outcome), method |-> last'.op]>>
        /\ last'.settled = "rejected"
        /\ last'.value = FetchError(last'.outcome)
        /\ graphData' = graphData]_vars

\* C22, amended: as stated when onApiError returns; when onApiError throws,
\* it has still been called once with the error and the name of the method
\* and the graph data is left as it was, but the returned promise rejects
\* with what onApiError threw
FailureReported ==
  [][FetchFailed
     => /\ last'.errorCalls =
             <<[error |-> FetchError(last'.outcome), method |-> last'.op]>>
        /\ last'.settled = "rejected"
        /\ last'.value = (IF onApiError = "throws" THEN HandlerError
                          ELSE FetchError(last'.outcome))
        /\ graphData' = graphData]_vars

\* a fetch of loadNextNodes was answered with a status that is not ok while
\* the graph held nodes and a caller's onApiError was set
HttpErrorBesideGraph ==
  /\ last.op = "loadNextNodes"
  /\ Has(last, "outcome")
  /\ last.outcome.fetch = "resolves"
  /\ ~last.outcome.ok
  /\ last.settled = "rejected"
  /\ onApiError = "returns"
  /\ Len(graphData.nodes) > 0

----------------------------------------------------------------------------
(* Properties of getEasing *)

\* what getEasing is to return for x: x itself when x is a function, the
\* table's function for one of the nine names, linear for any other name
EasingFor(x) ==
  IF x.type = "function" THEN x
  ELSE IF x.value \in EasingNames THEN EasingFunction(x.value)
       ELSE EasingFunction("linear")

\* C23: getEasing(x) returns x itself when x is a function, the table's
\* function when x is one of the nine easing names, and the linear easing
\* for every other name; so does the easing function of every instance for
\* its easing option
EasingResolved ==
  /\ last.op = "getEasing" => last.ret = EasingFor(last.arg)
  /\ \A a \in AllInstances :
       (Has(a.options, "easing") /\ Has(a.options, "easingFn"))
         => a.options.easingFn = EasingFor(a.options.easing)


----------------------------------------------------------------------------
(* Properties of the tracked-object set and the object-to-instances map *)

\* the last call was one of startAnimation, stopAnimation and tick and has
\* returned, not thrown
Returned ==
  /\ last.op \in {"startAnimation", "stopAnimation", "tick"}
  /\ ~(Has(last, "threw") /\ last.threw)

\* C29: whenever startAnimation, stopAnimation or tick has returned, no
\* object with an empty instance list is in the tracked-object set or in the
\* object-to-instances map, and every tracked object has a list in the map
TrackingTidy ==
  Returned =>
    /\ \A o \in DOMAIN objectAnimations : Len(objectAnimations[o]) > 0
    /\ animatedObjects \subseteq DOMAIN objectAnimations


----------------------------------------------------------------------------
(* Properties of the instance ids *)

\* the ids of the instances of all objects
LiveIds == {a.id : a \in AllInstances}

\* the number of instances in all lists
InstanceCount(map) ==
  LET RECURSIVE Sum(_)
      Sum(S) == IF S = {} THEN 0
                ELSE LET o == CHOOSE x \in S : TRUE
                     IN Len(map[o]) + Sum(S \ {o})
  IN Sum(DOMAIN map)

\* C30: an instance that appears in a step has an id above the counter's
\* value before the step, that is, above every id issued before by any
\* manager for any object; a startAnimation that creates an instance
\* returns that id; the counter never decreases; no two instances have the
\* same id
IdsNeverReissued ==
  [][/\ animationIdCounter' >= animationIdCounter
     /\ LiveIds \subseteq 1..animationIdCounter
     /\ \A id \in LiveIds' \ LiveIds : id > animationIdCounter
     /\ LiveIds' \subseteq 1..animationIdCounter'
     /\ Cardinality(LiveIds') = InstanceCount(objectAnimations')
     /\ (last'.op = "startAnimation" /\ Has(last', "created")
           /\ last'.created)
          => /\ last'.ret \in LiveIds' \ LiveIds
             /\ last'.ret > animationIdCounter
             /\ \A id \in LiveIds : id < last'.ret]_vars

\* a later manager has started an instance on one object while another
\* object holds the instance an earlier manager started
IssuedByLaterManager ==
  /\ last.op = "startAnimation"
  /\ last.created
  /\ last.ret \in LiveIds
  /\ \E o \in DOMAIN objectAnimations \ animatedObjects :
       \E id \in Ids(objectAnimations[o]) : id < last.ret
  /\ \E o \in animatedObjects : last.ret \in Ids(objectAnimations[o])


----------------------------------------------------------------------------
(* Properties of the restoration *)

\* the step removes instance a by an immediate stop or at the end of its
\* stop transition
RemovedByStop(a) ==
  \/ /\ last'.op = "stopAnimation"
     /\ last'.immediate
     /\ a.id \in last'.hit
  \/ /\ last'.op = "tick"
     /\ a.id \in last'.cleaned

\* C31: when the only instance of an object is removed by an immediate
\* stop or by the end of its stop transition, the type's cleanup has run
\* once and before the restoration (the probe type's cleanup has counted
\* one call, and the scale it sets is overwritten), and scale, rotation,
\* position and the material's emissive color, emissive intensity, opacity
\* and color equal the snapshot
SnapshotReapplied ==
  [][\A o \in DOMAIN objectAnimations :
       (Len(objectAnimations[o]) = 1 /\ RemovedByStop(objectAnimations[o][1]))
         => /\ objects'[o].scale = objectAnimations[o][1].initialValues.scale
            /\ objects'[o].rotation =
                 objectAnimations[o][1].initialValues.rotation
            /\ objects'[o].position =
                 objectAnimations[o][1].initialValues.position
            /\ objects[o].material # NoMaterial
                 => objects'[o].material =
                      objectAnimations[o][1].initialValues.material
            /\ (objectAnimations[o][1].name = "probe"
                  /\ "probe" \in DOMAIN animationTypes)
                 => objects'[o].userData = objects[o].userData + 1]_vars

\* C32: when a glow instance, the only instance of an object whose
\* material has an emissive color, is removed by an immediate stop or by
\* the end of its stop transition, the material's emissive color and
\* emissive intensity are those from before the start
GlowRestoresEmissive ==
  [][\A o \in DOMAIN objectAnimations :
       (/\ Len(objectAnimations[o]) = 1
        /\ objectAnimations[o][1].name = "glow"
        /\ RemovedByStop(objectAnimations[o][1])
        /\ Has(ghost[objectAnimations[o][1].id].pre.material, "emissive"))
         => /\ objects'[o].material.emissive =
                 ghost[objectAnimations[o][1].id].pre.material.emissive
            /\ objects'[o].material.emissiveIntensity =
                 ghost[objectAnimations[o][1].id].pre.material.emissiveIntensity]_vars

\* C33: when a stop or the end of a stop transition removes the last
\* instance of an object all of whose instances were removed by stops, the
\* object's scale and rotation are those from before the first of these
\* instances was started
OverlapRestored ==
  [][\A o \in DOMAIN objectAnimations :
       (/\ last'.op \in {"stopAnimation", "tick"}
        /\ Len(objectAnimations[o]) > 0
        /\ o \notin DOMAIN objectAnimations')
         => /\ objects'[o].scale =
                 ghost[objectAnimations[o][1].id].origin.scale
            /\ objects'[o].rotation =
                 ghost[objectAnimations[o][1].id].origin.rotation]_vars

----------------------------------------------------------------------------
(* Properties of clear *)

\* C34: every object that has an instance in its list is in the manager's
\* tracked-object set, so that the next tick visits the instance
ListedIsTracked ==
  \A o \in DOMAIN objectAnimations :
    Len(objectAnimations[o]) > 0 => o \in animatedObjects

----------------------------------------------------------------------------
(* Properties of several managers *)

\* the instances started by earlier managers
Foreign == {a \in AllInstances : ghost[a.id].foreign}

\* C35: the manager in use is independent of the earlier ones: it reports
\* no instance of theirs as animating (no running instance it has not
\* started is in the lists it reads), its startAnimation of a registered
\* type returns an instance of its own, and its stopAnimation acts on no
\* instance of theirs
ManagersIndependent ==
  [][/\ \A a \in Foreign' : a.stopping
     /\ (last'.op = "startAnimation" /\ last'.ret # -1)
          => last'.ret \notin {a.id : a \in Foreign'}
     /\ last'.op = "stopAnimation"
          => last'.hit \cap {a.id : a \in Foreign} = {}]_vars

----------------------------------------------------------------------------
(* Properties of the stop transition *)

\* p > q for two numbers
Above(p, q) == IsNum(p) /\ IsNum(q) /\ Val(p) > Val(q)

\* C36: the transition progress a tick passes to the update of an
\* instance that was stopping before the tick is not above the progress
\* the instance had before the tick: the one of the tick before or, at the
\* first tick after the stop, the one it had when it was stopped
FadeNeverRises ==
  [][last'.op = "tick" =>
       \A a \in AllInstances :
         (a.stopping /\ a.id \in DOMAIN last'.passed)
           => ~Above(last'.passed[a.id], a.transitionProgress)]_vars

----------------------------------------------------------------------------
(* Properties of the object tables *)

\* the objects in the pools, as pairs of type name and position
PoolSlots ==
  UNION {{<<t, i>> : i \in 1..Len(objectPools[t])} : t \in DOMAIN objectPools}

PooledAt(s) == objectPools[s[1]][s[2]]

\* C37: no object is both in the Active Object Table and in a pool, no
\* object occurs twice in the pools, no object is in the table under two
\* node ids, and every pooled object is invisible
TablesDisjoint ==
  /\ \A n \in DOMAIN activeObjects, s \in PoolSlots :
       activeObjects[n].object # PooledAt(s)
  /\ \A s1, s2 \in PoolSlots : s1 # s2 => PooledAt(s1) # PooledAt(s2)
  /\ \A n1, n2 \in DOMAIN activeObjects :
       n1 # n2 => activeObjects[n1].object # activeObjects[n2].object
  /\ \A s \in PoolSlots : ~meshes[PooledAt(s)].visible

\* an object has just been taken from a pool for a node while another
\* node has an object and an object is left in a pool
ReusedBesideOthers ==
  /\ last.op = "createObject"
  /\ last.ret # 0
  /\ ~last.created
  /\ Cardinality(DOMAIN activeObjects) = 2
  /\ PoolSlots # {}

\* C38: the object createObject returns for a node has the geometry and
\* the material the creator of the node's type makes for the node's
\* attributes, whether the creator made it or it came from the pool
ReturnedRepresentsNode ==
  [][\A node \in ReuseNodes :
       (/\ last'.op = "createObject"
        /\ last'.ret # 0
        /\ createObject(node, "THREE", DefaultAttribute))
         => /\ meshes'[last'.ret].geometryKey =
                 GeometryKey(typeRegistry[node.nodeThreeObjectType], node)
            /\ meshes'[last'.ret].materialKey = MaterialKey(node)]_vars

----------------------------------------------------------------------------
(* Properties of the graph's hover handler and frame cycle *)

\* the objects with a running instance that the hover handler has started
HoverAnimated ==
  {o \in DOMAIN objectAnimations :
     \E i \in 1..Len(objectAnimations[o]) :
       /\ objectAnimations[o][i].id \in hoverStarted
       /\ ~objectAnimations[o][i].stopping}

\* C39: after a hover event the only node with a running instance started
\* by hover is the hovered one
HoverAnimatesHovered ==
  last.op = "onHover" => HoverAnimated \subseteq {hoverObj}

\* C40: while pauseAnimation has returned and resumeAnimation has not been
\* called since, no requested frame runs a cycle
NoFrameWhilePaused ==
  [][paused => last'.op # "animationCycle"]_vars

====
